---- MODULE Spec2Model ----
(***************************************************************************)
(* A model of modules/core/models.py: the Issue, Fix, ReportSummary,       *)
(* Report and Config dataclasses, their __post_init__ validation and their *)
(* to_dict / from_dict transforms; of modules/utils/file_utils.py:         *)
(* create_backup, read_file, write_file and delete_file; of                *)
(* modules/utils/git_utils.py; and of the monorepo queries and the tool    *)
(* probes of modules/utils/env_utils.py.                                   *)
(*                                                                         *)
(* The specifications share the operators that model the code:             *)
(*   Spec      a caller draws one input (constructor arguments or a        *)
(*             mapping), then constructs, serialises and deserialises;     *)
(*             instances are handled as values, which is all a caller can  *)
(*             see while nothing is assigned to.                           *)
(*   SpecHeap  instances are objects on a heap, held by reference, and the *)
(*             caller may assign to their fields (the dataclasses are not  *)
(*             frozen).                                                    *)
(*   SpecFS    a caller calls the functions of file_utils on a temporary   *)
(*             directory, in any order, while time passes.                 *)
(*   SpecFix   an orchestrator applies a Fix under a Config by the         *)
(*             protocol of the design, composed from file_utils.           *)
(*   SpecGit   a caller calls the functions of git_utils on a directory,   *)
(*             each git process having one of its possible outcomes.       *)
(*   SpecEnv   a caller calls the monorepo queries on a project tree and   *)
(*             the tool probes.                                            *)
(*   SpecShare a ReportSummary and a Config with their dicts and lists as  *)
(*             objects, and the mappings of to_dict and from_dict.         *)
(*   SpecRace  read_file, delete_file and create_backup step by step, next *)
(*             to a process that removes and creates the file.             *)
(***************************************************************************)
EXTENDS Integers, Sequences, FiniteSets, TLC

VARIABLES
    pc,     \* the caller's position: start, built, dumped, loaded, failed, or
            \* the name of the specification; in SpecRace the step of the call
    inp,    \* the input drawn for this run: constructor arguments or a mapping;
            \* in SpecGit and SpecEnv what is installed, in SpecRace the call in
            \* progress
    cur,    \* the value the last call returned (instance or mapping), NoObj after a raise
    orig,   \* the instance the mapping in cur was produced from by to_dict
    last,   \* the last call: its name, whether it returned, the error it raised
    heap,   \* SpecHeap: the objects alive, a reference is an index into heap
    files,  \* SpecFS: the file system, a mapping from the paths that exist to nodes
    now,    \* SpecFS: the clock, in ticks
    taken   \* SpecFS: the backups returned so far, each with the bytes it was taken of

disk == <<files, now, taken>>

vars == <<pc, inp, cur, orig, last, heap, files, now, taken>>

----------------------------------------------------------------------------
(* Bounds of the input domains *)

MaxLine == 1
MaxCount == 1
MaxList == 2
MaxObjs == 3
MaxTime == 4
TicksPerSecond == 3
MaxPartial == 1

\* the dicts, lists, instances and mappings on the heap of SpecShare
MaxCells == 6

----------------------------------------------------------------------------
(* Python values *)

\* None, where a string is expected (Issue.suggestion, dict.get without default)
None == "None"

\* None, where an object is expected (nothing returned)
NoObj == [cls |-> "NoneType"]

\* A call returns a value or raises an exception of some kind with a message
Return(v) == [ok |-> TRUE, val |-> v, kind |-> "", msg |-> ""]
Raise(kind, msg) == [ok |-> FALSE, val |-> NoObj, kind |-> kind, msg |-> msg]

\* dict.get(key, default)
Get(data, key, default) == IF key \in DOMAIN data THEN data[key] ELSE default

\* the mapping without a key (del data[key])
Without(data, key) == [k \in (DOMAIN data) \ {key} |-> data[k]]

\* the first key of keys that data lacks: data[key] raises KeyError(key)
RECURSIVE FirstMissing(_, _)
FirstMissing(data, keys) ==
    IF keys = <<>> THEN None
    ELSE IF Head(keys) \notin DOMAIN data THEN Head(keys)
    ELSE FirstMissing(data, Tail(keys))

----------------------------------------------------------------------------
(* class Severity(str, enum.Enum), class IssueCategory(str, enum.Enum) *)

SeverityMembers == {"ERROR", "WARNING", "INFO"}

SeverityValue(m) ==
    CASE m = "ERROR" -> "error"
      [] m = "WARNING" -> "warning"
      [] m = "INFO" -> "info"

\* Severity(value) that also finds a member by its name
Severity_by_name_too(value) ==
    IF \E m \in SeverityMembers : SeverityValue(m) = value
    THEN Return(CHOOSE m \in SeverityMembers : SeverityValue(m) = value)
    ELSE IF value \in SeverityMembers THEN Return(value)
    ELSE Raise("ValueError", "is not a valid Severity")

\* Severity(value): the member with that value, ValueError when there is none
Severity(value) ==
    IF \E m \in SeverityMembers : SeverityValue(m) = value
    THEN Return(CHOOSE m \in SeverityMembers : SeverityValue(m) = value)
    ELSE Raise("ValueError", "is not a valid Severity")

IssueCategoryMembers == {"TYPE_ERROR", "STYLE_VIOLATION", "IMPORT_ISSUE"}

IssueCategoryValue(m) ==
    CASE m = "TYPE_ERROR" -> "type-error"
      [] m = "STYLE_VIOLATION" -> "style-violation"
      [] m = "IMPORT_ISSUE" -> "import-issue"

IssueCategory(value) ==
    IF \E m \in IssueCategoryMembers : IssueCategoryValue(m) = value
    THEN Return(CHOOSE m \in IssueCategoryMembers : IssueCategoryValue(m) = value)
    ELSE Raise("ValueError", "is not a valid IssueCategory")

----------------------------------------------------------------------------
(* class Issue *)

\* Issue.__post_init__ with the line check off by one (line < 0)
Issue_post_init_line_from_0(self) ==
    IF self.line < 0 THEN Raise("ValueError", "Line number must be >= 1")
    ELSE IF self.column < 1 THEN Raise("ValueError", "Column number must be >= 1")
    ELSE IF self.file_path = "" THEN Raise("ValueError", "file_path cannot be empty")
    ELSE IF self.code = "" THEN Raise("ValueError", "code cannot be empty")
    ELSE IF self.message = "" THEN Raise("ValueError", "message cannot be empty")
    ELSE IF self.source \notin {"pyright", "ruff"}
         THEN Raise("ValueError", "source must be 'pyright' or 'ruff'")
    ELSE Return(self)

\* Issue.__post_init__ with the line check's message copied to the column check
Issue_post_init_copied_message(self) ==
    IF self.line < 1 THEN Raise("ValueError", "Line number must be >= 1")
    ELSE IF self.column < 1 THEN Raise("ValueError", "Line number must be >= 1")
    ELSE IF self.file_path = "" THEN Raise("ValueError", "file_path cannot be empty")
    ELSE IF self.code = "" THEN Raise("ValueError", "code cannot be empty")
    ELSE IF self.message = "" THEN Raise("ValueError", "message cannot be empty")
    ELSE IF self.source \notin {"pyright", "ruff"}
         THEN Raise("ValueError", "source must be 'pyright' or 'ruff'")
    ELSE Return(self)

Issue_post_init(self) ==
    IF self.line < 1 THEN Raise("ValueError", "Line number must be >= 1")
    ELSE IF self.column < 1 THEN Raise("ValueError", "Column number must be >= 1")
    ELSE IF self.file_path = "" THEN Raise("ValueError", "file_path cannot be empty")
    ELSE IF self.code = "" THEN Raise("ValueError", "code cannot be empty")
    ELSE IF self.message = "" THEN Raise("ValueError", "message cannot be empty")
    ELSE IF self.source \notin {"pyright", "ruff"}
         THEN Raise("ValueError", "source must be 'pyright' or 'ruff'")
    ELSE Return(self)

\* Issue(**kw) with "ruff" as the default of source
Issue_source_ruff_by_default(kw) ==
    Issue_post_init(
        [cls |-> "Issue",
         file_path |-> kw.file_path,
         line |-> kw.line,
         column |-> kw.column,
         severity |-> kw.severity,
         category |-> kw.category,
         code |-> kw.code,
         message |-> kw.message,
         suggestion |-> Get(kw, "suggestion", None),
         source |-> Get(kw, "source", "ruff")])

\* Issue(**kw): the generated __init__ (suggestion and source have defaults),
\* then __post_init__
Issue(kw) ==
    Issue_post_init(
        [cls |-> "Issue",
         file_path |-> kw.file_path,
         line |-> kw.line,
         column |-> kw.column,
         severity |-> kw.severity,
         category |-> kw.category,
         code |-> kw.code,
         message |-> kw.message,
         suggestion |-> Get(kw, "suggestion", None),
         source |-> Get(kw, "source", "")])

Issue_to_dict(self) ==
    [file_path |-> self.file_path,
     line |-> self.line,
     column |-> self.column,
     severity |-> SeverityValue(self.severity),
     category |-> IssueCategoryValue(self.category),
     code |-> self.code,
     message |-> self.message,
     suggestion |-> self.suggestion,
     source |-> self.source]

\* The arguments of cls(...) are evaluated in order, so the first key that is
\* missing or the first enumeration value that is invalid raises.
Issue_from_dict(data) ==
    LET k1 == FirstMissing(data, <<"file_path", "line", "column", "severity">>)
        k2 == FirstMissing(data, <<"category">>)
        k3 == FirstMissing(data, <<"code", "message">>)
    IN  IF k1 # None THEN Raise("KeyError", k1)
        ELSE IF ~Severity(data.severity).ok THEN Severity(data.severity)
        ELSE IF k2 # None THEN Raise("KeyError", k2)
        ELSE IF ~IssueCategory(data.category).ok THEN IssueCategory(data.category)
        ELSE IF k3 # None THEN Raise("KeyError", k3)
        ELSE Issue([file_path |-> data.file_path,
                    line |-> data.line,
                    column |-> data.column,
                    severity |-> Severity(data.severity).val,
                    category |-> IssueCategory(data.category).val,
                    code |-> data.code,
                    message |-> data.message,
                    suggestion |-> Get(data, "suggestion", None),
                    source |-> Get(data, "source", "")])

----------------------------------------------------------------------------
(* class Fix *)

\* Fix.__post_init__ comparing the codes only when original_code is truthy
Fix_post_init_truthy_code(self) ==
    IF self.file_path = "" THEN Raise("ValueError", "file_path cannot be empty")
    ELSE IF self.explanation = "" THEN Raise("ValueError", "explanation cannot be empty")
    ELSE IF self.original_code # "" /\ self.original_code = self.fixed_code
         THEN Raise("ValueError", "original_code and fixed_code cannot be identical")
    ELSE Return(self)

Fix_post_init(self) ==
    IF self.file_path = "" THEN Raise("ValueError", "file_path cannot be empty")
    ELSE IF self.explanation = "" THEN Raise("ValueError", "explanation cannot be empty")
    ELSE IF self.original_code = self.fixed_code
         THEN Raise("ValueError", "original_code and fixed_code cannot be identical")
    ELSE Return(self)

\* Fix(**kw): the generated __init__ (safe defaults to True), then __post_init__.
\* The issue argument is stored as it is passed.
Fix(kw) ==
    Fix_post_init(
        [cls |-> "Fix",
         file_path |-> kw.file_path,
         original_code |-> kw.original_code,
         fixed_code |-> kw.fixed_code,
         issue |-> kw.issue,
         explanation |-> kw.explanation,
         safe |-> Get(kw, "safe", TRUE)])

Fix_to_dict(self) ==
    [file_path |-> self.file_path,
     original_code |-> self.original_code,
     fixed_code |-> self.fixed_code,
     issue |-> Issue_to_dict(self.issue),
     explanation |-> self.explanation,
     safe |-> self.safe]

\* Fix.from_dict reading safe as data.get("safe") or True
Fix_from_dict_safe_or_true(data) ==
    LET k1 == FirstMissing(data, <<"file_path", "original_code", "fixed_code", "issue">>)
        k2 == FirstMissing(data, <<"explanation">>)
    IN  IF k1 # None THEN Raise("KeyError", k1)
        ELSE IF ~Issue_from_dict(data.issue).ok THEN Issue_from_dict(data.issue)
        ELSE IF k2 # None THEN Raise("KeyError", k2)
        ELSE Fix([file_path |-> data.file_path,
                  original_code |-> data.original_code,
                  fixed_code |-> data.fixed_code,
                  issue |-> Issue_from_dict(data.issue).val,
                  explanation |-> data.explanation,
                  safe |-> Get(data, "safe", TRUE) \/ TRUE])

Fix_from_dict(data) ==
    LET k1 == FirstMissing(data, <<"file_path", "original_code", "fixed_code", "issue">>)
        k2 == FirstMissing(data, <<"explanation">>)
    IN  IF k1 # None THEN Raise("KeyError", k1)
        ELSE IF ~Issue_from_dict(data.issue).ok THEN Issue_from_dict(data.issue)
        ELSE IF k2 # None THEN Raise("KeyError", k2)
        ELSE Fix([file_path |-> data.file_path,
                  original_code |-> data.original_code,
                  fixed_code |-> data.fixed_code,
                  issue |-> Issue_from_dict(data.issue).val,
                  explanation |-> data.explanation,
                  safe |-> Get(data, "safe", TRUE)])

----------------------------------------------------------------------------
(* class ReportSummary *)

\* ReportSummary.__post_init__ rejecting only a sum above the total
ReportSummary_post_init_sum_above(self) ==
    IF self.total_issues < 0 THEN Raise("ValueError", "total_issues cannot be negative")
    ELSE IF self.errors < 0 THEN Raise("ValueError", "errors cannot be negative")
    ELSE IF self.warnings < 0 THEN Raise("ValueError", "warnings cannot be negative")
    ELSE IF self.infos < 0 THEN Raise("ValueError", "infos cannot be negative")
    ELSE IF self.errors + self.warnings + self.infos > self.total_issues
         THEN Raise("ValueError",
                    "Sum of errors, warnings, and infos must equal total_issues")
    ELSE Return(self)

\* ReportSummary.__post_init__ with the sum identity checked before the signs
ReportSummary_post_init_sum_first(self) ==
    IF self.errors + self.warnings + self.infos # self.total_issues
    THEN Raise("ValueError",
               "Sum of errors, warnings, and infos must equal total_issues")
    ELSE IF self.total_issues < 0
         THEN Raise("ValueError", "total_issues cannot be negative")
    ELSE IF self.errors < 0 THEN Raise("ValueError", "errors cannot be negative")
    ELSE IF self.warnings < 0 THEN Raise("ValueError", "warnings cannot be negative")
    ELSE IF self.infos < 0 THEN Raise("ValueError", "infos cannot be negative")
    ELSE Return(self)

ReportSummary_post_init(self) ==
    IF self.total_issues < 0 THEN Raise("ValueError", "total_issues cannot be negative")
    ELSE IF self.errors < 0 THEN Raise("ValueError", "errors cannot be negative")
    ELSE IF self.warnings < 0 THEN Raise("ValueError", "warnings cannot be negative")
    ELSE IF self.infos < 0 THEN Raise("ValueError", "infos cannot be negative")
    ELSE IF self.errors + self.warnings + self.infos # self.total_issues
         THEN Raise("ValueError",
                    "Sum of errors, warnings, and infos must equal total_issues")
    ELSE Return(self)

\* an empty dict, from default_factory=dict or the literal {}
EmptyDict == <<>>

\* an empty list, from default_factory=list or the literal []
EmptyList == <<>>

ReportSummary(kw) ==
    ReportSummary_post_init(
        [cls |-> "ReportSummary",
         total_issues |-> kw.total_issues,
         errors |-> kw.errors,
         warnings |-> kw.warnings,
         infos |-> kw.infos,
         by_category |-> Get(kw, "by_category", EmptyDict),
         by_file |-> Get(kw, "by_file", EmptyDict)])

ReportSummary_to_dict(self) ==
    [total_issues |-> self.total_issues,
     errors |-> self.errors,
     warnings |-> self.warnings,
     infos |-> self.infos,
     by_category |-> self.by_category,
     by_file |-> self.by_file]

ReportSummary_from_dict(data) ==
    LET k1 == FirstMissing(data, <<"total_issues", "errors", "warnings", "infos">>)
    IN  IF k1 # None THEN Raise("KeyError", k1)
        ELSE ReportSummary([total_issues |-> data.total_issues,
                            errors |-> data.errors,
                            warnings |-> data.warnings,
                            infos |-> data.infos,
                            by_category |-> Get(data, "by_category", EmptyDict),
                            by_file |-> Get(data, "by_file", EmptyDict)])

----------------------------------------------------------------------------
(* datetime.datetime: the fields that isoformat() writes apart from the date  *)
(* and the minute, which are written always and in one way. utcoffset is None *)
(* for a naive value.                                                         *)

\* datetime.isoformat(timespec="seconds"): the fraction is never written
isoformat_seconds(dt) ==
    <<[part |-> "time", text |-> dt.second]>>
    \o (IF dt.utcoffset # None
        THEN <<[part |-> "offset", text |-> dt.utcoffset]>> ELSE <<>>)

\* datetime.isoformat(): "YYYY-MM-DDTHH:MM:SS", then ".ffffff" unless microsecond
\* is 0, then "+HH:MM" unless the value is naive. The text is the sequence of
\* its parts.
isoformat(dt) ==
    <<[part |-> "time", text |-> dt.second]>>
    \o (IF dt.microsecond # 0
        THEN <<[part |-> "fraction", text |-> dt.microsecond]>> ELSE <<>>)
    \o (IF dt.utcoffset # None
        THEN <<[part |-> "offset", text |-> dt.utcoffset]>> ELSE <<>>)

\* datetime.fromisoformat(text): the time, an optional fraction (microsecond 0
\* without one), an optional offset (naive without one); ValueError otherwise
fromisoformat(text) ==
    LET n == Len(text)
        hasFraction == n >= 2 /\ text[2].part = "fraction"
        rest == IF hasFraction THEN SubSeq(text, 3, n) ELSE SubSeq(text, 2, n)
    IN  IF n = 0 \/ text[1].part # "time"
        THEN Raise("ValueError", "Invalid isoformat string")
        ELSE IF Len(rest) > 1 \/ (Len(rest) = 1 /\ rest[1].part # "offset")
        THEN Raise("ValueError", "Invalid isoformat string")
        ELSE Return([second |-> text[1].text,
                     microsecond |-> IF hasFraction THEN text[2].text ELSE 0,
                     utcoffset |-> IF Len(rest) = 1 THEN rest[1].text ELSE None])

----------------------------------------------------------------------------
(* class Report *)

Report_post_init(self) ==
    IF self.project_path = "" THEN Raise("ValueError", "project_path cannot be empty")
    ELSE Return(self)

Report(kw) ==
    Report_post_init(
        [cls |-> "Report",
         issues |-> kw.issues,
         fixes |-> kw.fixes,
         summary |-> kw.summary,
         timestamp |-> kw.timestamp,
         project_path |-> kw.project_path])

Report_to_dict(self) ==
    [issues |-> [i \in 1 .. Len(self.issues) |-> Issue_to_dict(self.issues[i])],
     fixes |-> [i \in 1 .. Len(self.fixes) |-> Fix_to_dict(self.fixes[i])],
     summary |-> ReportSummary_to_dict(self.summary),
     timestamp |-> isoformat(self.timestamp),
     project_path |-> self.project_path]

\* the results of a list comprehension [f(x) for x in xs]: the first raise, if
\* any, else the list of the values
RECURSIVE FirstRaise(_)
FirstRaise(rs) ==
    IF rs = <<>> THEN Return(EmptyList)
    ELSE IF ~Head(rs).ok THEN Head(rs)
    ELSE LET t == FirstRaise(Tail(rs))
         IN  IF t.ok THEN Return(<<Head(rs).val>> \o t.val) ELSE t

Report_from_dict(data) ==
    LET ds == Get(data, "issues", EmptyList)
        fs == Get(data, "fixes", EmptyList)
        issues == FirstRaise([i \in 1 .. Len(ds) |-> Issue_from_dict(ds[i])])
        fixes == FirstRaise([i \in 1 .. Len(fs) |-> Fix_from_dict(fs[i])])
    IN  IF ~issues.ok THEN issues
        ELSE IF ~fixes.ok THEN fixes
        ELSE IF "summary" \notin DOMAIN data THEN Raise("KeyError", "summary")
        ELSE IF ~ReportSummary_from_dict(data.summary).ok
             THEN ReportSummary_from_dict(data.summary)
        ELSE IF "timestamp" \notin DOMAIN data THEN Raise("KeyError", "timestamp")
        ELSE IF ~fromisoformat(data.timestamp).ok THEN fromisoformat(data.timestamp)
        ELSE IF "project_path" \notin DOMAIN data THEN Raise("KeyError", "project_path")
        ELSE Report([issues |-> issues.val,
                     fixes |-> fixes.val,
                     summary |-> ReportSummary_from_dict(data.summary).val,
                     timestamp |-> fromisoformat(data.timestamp).val,
                     project_path |-> data.project_path])

----------------------------------------------------------------------------
(* class Config *)

Config_post_init(self) ==
    IF self.project_path = "" THEN Raise("ValueError", "project_path cannot be empty")
    ELSE Return(self)

\* Config with dry_run = True as the default of the field
Config_dry_run_by_default(kw) ==
    Config_post_init(
        [cls |-> "Config",
         project_path |-> kw.project_path,
         pyright_config |-> Get(kw, "pyright_config", EmptyDict),
         ruff_config |-> Get(kw, "ruff_config", EmptyDict),
         exclusions |-> Get(kw, "exclusions", EmptyList),
         google_style_guide |-> Get(kw, "google_style_guide", TRUE),
         auto_fix_enabled |-> Get(kw, "auto_fix_enabled", TRUE),
         backup_enabled |-> Get(kw, "backup_enabled", TRUE),
         dry_run |-> Get(kw, "dry_run", TRUE)])

Config(kw) ==
    Config_post_init(
        [cls |-> "Config",
         project_path |-> kw.project_path,
         pyright_config |-> Get(kw, "pyright_config", EmptyDict),
         ruff_config |-> Get(kw, "ruff_config", EmptyDict),
         exclusions |-> Get(kw, "exclusions", EmptyList),
         google_style_guide |-> Get(kw, "google_style_guide", TRUE),
         auto_fix_enabled |-> Get(kw, "auto_fix_enabled", TRUE),
         backup_enabled |-> Get(kw, "backup_enabled", TRUE),
         dry_run |-> Get(kw, "dry_run", FALSE)])

Config_to_dict(self) ==
    [project_path |-> self.project_path,
     pyright_config |-> self.pyright_config,
     ruff_config |-> self.ruff_config,
     exclusions |-> self.exclusions,
     google_style_guide |-> self.google_style_guide,
     auto_fix_enabled |-> self.auto_fix_enabled,
     backup_enabled |-> self.backup_enabled,
     dry_run |-> self.dry_run]

Config_from_dict(data) ==
    IF "project_path" \notin DOMAIN data THEN Raise("KeyError", "project_path")
    ELSE Config([project_path |-> data.project_path,
                 pyright_config |-> Get(data, "pyright_config", EmptyDict),
                 ruff_config |-> Get(data, "ruff_config", EmptyDict),
                 exclusions |-> Get(data, "exclusions", EmptyList),
                 google_style_guide |-> Get(data, "google_style_guide", TRUE),
                 auto_fix_enabled |-> Get(data, "auto_fix_enabled", TRUE),
                 backup_enabled |-> Get(data, "backup_enabled", TRUE),
                 dry_run |-> Get(data, "dry_run", FALSE)])

----------------------------------------------------------------------------
(* modules/utils/file_utils.py, over a file system of directories and        *)
(* regular files on a POSIX platform. A path is the sequence of its names    *)
(* below the root, a name is its stem and its suffix. A text is a sequence   *)
(* of characters, a file holds a sequence of bytes. The characters are "x",  *)
(* "y", "LF" (line feed), "CR" (carriage return) and "SURR" (a lone          *)
(* surrogate, which str allows and UTF-8 cannot encode); each of the others  *)
(* is one byte in UTF-8.                                                     *)

Name(stem, suffix) == [stem |-> stem, suffix |-> suffix]

parent(path) == SubSeq(path, 1, Len(path) - 1)

NoFiles == <<>>
NoPath == <<>>
NoText == <<>>
Directory == [kind |-> "dir", content |-> <<>>]
RegularFile(bytes) == [kind |-> "file", content |-> bytes]

exists(fs, path) == path = <<>> \/ path \in DOMAIN fs
is_dir(fs, path) == path = <<>> \/ (path \in DOMAIN fs /\ fs[path].kind = "dir")
is_file(fs, path) == path \in DOMAIN fs /\ fs[path].kind = "file"

\* the file system fs with node at path
With(fs, path, node) == (path :> node) @@ fs

\* what an operation leaves: what it returns or raises, and the file system
Outcome(res, fs) == [res |-> res, fs |-> fs]

\* what the operating system does to one call: nothing, a refusal to open a
\* file (EACCES), or an error while the data is transferred (ENOSPC, EIO) after n
\* bytes
IOOk == [fail |-> "none", n |-> 0]
IODenied == [fail |-> "open", n |-> 0]
IOOutcomes == {IOOk, IODenied} \cup {[fail |-> "data", n |-> k] : k \in 0 .. MaxPartial}

Min(a, b) == IF a < b THEN a ELSE b

\* the first n bytes
Prefix(bytes, n) == SubSeq(bytes, 1, Min(n, Len(bytes)))

linesep == <<"LF">>

\* what a file opened in text mode with encoding utf-8 writes for a text:
\* "\n" as os.linesep, every other character as its UTF-8 bytes
RECURSIVE encode(_)
encode(text) ==
    IF text = <<>> THEN Return(<<>>)
    ELSE IF Head(text) = "SURR"
    THEN Raise("UnicodeEncodeError", "surrogates not allowed")
    ELSE LET rest == encode(Tail(text))
         IN  IF ~rest.ok THEN rest
             ELSE Return((IF Head(text) = "LF" THEN linesep ELSE <<Head(text)>>)
                         \o rest.val)

\* what a file opened in text mode reads: "\r\n" and "\r" as "\n"
RECURSIVE universal_newlines(_)
universal_newlines(chars) ==
    IF chars = <<>> THEN <<>>
    ELSE IF Head(chars) = "CR"
    THEN <<"LF">> \o universal_newlines(IF Len(chars) >= 2 /\ chars[2] = "LF"
                                        THEN Tail(Tail(chars)) ELSE Tail(chars))
    ELSE <<Head(chars)>> \o universal_newlines(Tail(chars))

\* pathlib.Path.read_text(encoding="utf-8") of a file that holds bytes
read_text(bytes) == universal_newlines(bytes)

\* datetime.datetime.now().strftime("%Y%m%d_%H%M%S") at tick t: the second
strftime(t) == ToString(t \div TicksPerSecond)

\* shutil.copy2(src, dst) of a regular file src to a path dst that is no
\* directory
copy2(fs, src, dst, io) ==
    CASE io.fail = "open" -> Outcome(Raise("PermissionError", "Permission denied"), fs)
      [] io.fail = "data" ->
           Outcome(Raise("OSError", "No space left on device"),
                   With(fs, dst, RegularFile(Prefix(fs[src].content, io.n))))
      [] OTHER -> Outcome(Return(dst), With(fs, dst, RegularFile(fs[src].content)))

\* create_backup that moves the file to the backup path
create_backup_by_rename(fs, t, file_path, io) ==
    IF ~exists(fs, file_path) THEN Outcome(Raise("FileNotFoundError", "File not found"), fs)
    ELSE IF ~is_file(fs, file_path)
    THEN Outcome(Raise("ValueError", "Path is not a file"), fs)
    ELSE LET nm == file_path[Len(file_path)]
             backup_path == parent(file_path)
                 \o <<Name(nm.stem \o ".backup_" \o strftime(t), nm.suffix)>>
             rest == [q \in DOMAIN fs \ {file_path} |-> fs[q]]
         IN  Outcome(Return(backup_path), With(rest, backup_path, fs[file_path]))

\* create_backup without the is_file check
create_backup_unchecked(fs, t, file_path, io) ==
    IF ~exists(fs, file_path) THEN Outcome(Raise("FileNotFoundError", "File not found"), fs)
    ELSE IF ~is_file(fs, file_path)
    THEN Outcome(Raise("OSError", "Failed to create backup"), fs)
    ELSE LET nm == file_path[Len(file_path)]
             backup_path == parent(file_path)
                 \o <<Name(nm.stem \o ".backup_" \o strftime(t), nm.suffix)>>
             copied == copy2(fs, file_path, backup_path, io)
         IN  IF copied.res.ok THEN Outcome(Return(backup_path), copied.fs)
             ELSE IF copied.res.kind = "PermissionError"
             THEN Outcome(Raise("PermissionError", "Permission denied creating backup"),
                          copied.fs)
             ELSE Outcome(Raise("OSError", "Failed to create backup"), copied.fs)

\* create_backup that returns the backup path also when the copy failed
create_backup_swallowing(fs, t, file_path, io) ==
    IF ~exists(fs, file_path) THEN Outcome(Raise("FileNotFoundError", "File not found"), fs)
    ELSE IF ~is_file(fs, file_path)
    THEN Outcome(Raise("ValueError", "Path is not a file"), fs)
    ELSE LET nm == file_path[Len(file_path)]
             backup_path == parent(file_path)
                 \o <<Name(nm.stem \o ".backup_" \o strftime(t), nm.suffix)>>
             copied == copy2(fs, file_path, backup_path, io)
         IN  Outcome(Return(backup_path), copied.fs)

create_backup(fs, t, file_path, io) ==
    IF ~exists(fs, file_path) THEN Outcome(Raise("FileNotFoundError", "File not found"), fs)
    ELSE IF ~is_file(fs, file_path)
    THEN Outcome(Raise("ValueError", "Path is not a file"), fs)
    ELSE LET nm == file_path[Len(file_path)]
             backup_path == parent(file_path)
                 \o <<Name(nm.stem \o ".backup_" \o strftime(t), nm.suffix)>>
             copied == copy2(fs, file_path, backup_path, io)
         IN  IF copied.res.ok THEN Outcome(Return(backup_path), copied.fs)
             ELSE IF copied.res.kind = "PermissionError"
             THEN Outcome(Raise("PermissionError", "Permission denied creating backup"),
                          copied.fs)
             ELSE Outcome(Raise("OSError", "Failed to create backup"), copied.fs)

\* the text without the line ends at its end, as str.rstrip leaves it
RECURSIVE rstrip(_)
rstrip(text) ==
    IF text # <<>> /\ text[Len(text)] \in {"LF", "CR"}
    THEN rstrip(SubSeq(text, 1, Len(text) - 1))
    ELSE text

\* read_file that strips the text it read
read_file_stripped(fs, file_path, io) ==
    IF ~exists(fs, file_path) THEN Raise("FileNotFoundError", "File not found")
    ELSE IF ~is_file(fs, file_path) THEN Raise("ValueError", "Path is not a file")
    ELSE CASE io.fail = "open" -> Raise("PermissionError", "Permission denied reading")
           [] io.fail = "data" -> Raise("OSError", "Failed to read")
           [] OTHER -> Return(rstrip(read_text(fs[file_path].content)))

read_file(fs, file_path, io) ==
    IF ~exists(fs, file_path) THEN Raise("FileNotFoundError", "File not found")
    ELSE IF ~is_file(fs, file_path) THEN Raise("ValueError", "Path is not a file")
    ELSE CASE io.fail = "open" -> Raise("PermissionError", "Permission denied reading")
           [] io.fail = "data" -> Raise("OSError", "Failed to read")
           [] OTHER -> Return(read_text(fs[file_path].content))

\* pathlib.Path.mkdir(parents=True, exist_ok=True)
RECURSIVE mkdir(_, _)
mkdir(fs, path) ==
    IF is_dir(fs, path) THEN Outcome(Return(None), fs)
    ELSE IF exists(fs, path) THEN Outcome(Raise("FileExistsError", "File exists"), fs)
    ELSE LET up == mkdir(fs, parent(path))
         IN  IF ~up.res.ok
             THEN Outcome(Raise("NotADirectoryError", "Not a directory"), fs)
             ELSE Outcome(Return(None), With(up.fs, path, Directory))

\* pathlib.Path.write_text(content, encoding="utf-8"): open(mode="w") makes
\* the file empty, write() encodes the text and writes the bytes
write_text(fs, path, content, io) ==
    IF io.fail = "open" THEN Outcome(Raise("PermissionError", "Permission denied"), fs)
    ELSE IF is_dir(fs, path) THEN Outcome(Raise("IsADirectoryError", "Is a directory"), fs)
    ELSE LET data == encode(content)
         IN  IF ~data.ok THEN Outcome(data, With(fs, path, RegularFile(<<>>)))
             ELSE IF io.fail = "data"
             THEN Outcome(Raise("OSError", "No space left on device"),
                          With(fs, path, RegularFile(Prefix(data.val, io.n))))
             ELSE Outcome(Return(None), With(fs, path, RegularFile(data.val)))

\* the errors the except clauses of write_file catch: PermissionError, and
\* OSError with its subclasses
OSErrors == {"OSError", "IsADirectoryError", "FileExistsError", "NotADirectoryError"}

\* write_file that opens the file for appending
write_file_append(fs, file_path, content, io) ==
    LET made == mkdir(fs, parent(file_path))
        old == IF is_file(made.fs, file_path) THEN made.fs[file_path].content ELSE <<>>
        data == encode(content)
    IN  IF ~made.res.ok THEN made
        ELSE IF io.fail = "open" \/ is_dir(made.fs, file_path) \/ ~data.ok
        THEN Outcome(Raise("OSError", "Failed to write to"), made.fs)
        ELSE Outcome(Return(None), With(made.fs, file_path, RegularFile(old \o data.val)))

write_file(fs, file_path, content, io) ==
    LET made == mkdir(fs, parent(file_path))
        written == write_text(made.fs, file_path, content, io)
    IN  IF ~made.res.ok THEN made
        ELSE IF written.res.ok THEN written
        ELSE IF written.res.kind = "PermissionError"
        THEN Outcome(Raise("PermissionError", "Permission denied writing to"), written.fs)
        ELSE IF written.res.kind \in OSErrors
        THEN Outcome(Raise("OSError", "Failed to write to"), written.fs)
        ELSE written

\* delete_file without the exists check
delete_file_unchecked(fs, file_path, io) ==
    IF ~is_file(fs, file_path) THEN Outcome(Raise("OSError", "Failed to delete"), fs)
    ELSE IF io.fail = "open"
    THEN Outcome(Raise("PermissionError", "Permission denied deleting"), fs)
    ELSE Outcome(Return(None), [q \in DOMAIN fs \ {file_path} |-> fs[q]])

\* pathlib.Path.unlink() raises IsADirectoryError for a directory
delete_file(fs, file_path, io) ==
    IF ~exists(fs, file_path) THEN Outcome(Raise("FileNotFoundError", "File not found"), fs)
    ELSE IF is_dir(fs, file_path) THEN Outcome(Raise("OSError", "Failed to delete"), fs)
    ELSE IF io.fail = "open"
    THEN Outcome(Raise("PermissionError", "Permission denied deleting"), fs)
    ELSE Outcome(Return(None), [q \in DOMAIN fs \ {file_path} |-> fs[q]])

----------------------------------------------------------------------------
(* modules/utils/git_utils.py. Every function runs git as a child process;   *)
(* what the child does is an outcome: it is not found, it runs out of time,  *)
(* or it exits with a status and an output. An output is a sequence of       *)
(* characters, " " and "LF" being white space.                               *)

Whitespace == {" ", "LF"}

\* an outcome of subprocess.run: the executable is missing, the time limit
\* passed, or the child exited
NotFound == [how |-> "missing", returncode |-> 0, stdout |-> <<>>]
TimedOut == [how |-> "timeout", returncode |-> 0, stdout |-> <<>>]
Exited(returncode, stdout) ==
    [how |-> "exit", returncode |-> returncode, stdout |-> stdout]

\* what a function of git_utils (or the subprocess.run it called) gives its
\* caller: a value (flag, names, text, or None where none is TRUE) or an
\* exception with the command and the exit status it carries; ran lists the
\* commands that were run
GitReturn(flag, names, text, none, ran) ==
    [ok |-> TRUE, kind |-> "", msg |-> "", cmd |-> <<>>, returncode |-> 0,
     flag |-> flag, names |-> names, text |-> text, none |-> none, ran |-> ran]
GitRaise(kind, msg, cmd, returncode, ran) ==
    [ok |-> FALSE, kind |-> kind, msg |-> msg, cmd |-> cmd,
     returncode |-> returncode, flag |-> FALSE, names |-> <<>>, text |-> <<>>,
     none |-> FALSE, ran |-> ran]

\* subprocess.run(cmd, capture_output=True, check=check, timeout=...): the
\* output of the child in text, or the exception of the outcome
subprocess_run(cmd, check, outcome) ==
    CASE outcome.how = "missing" ->
           GitRaise("FileNotFoundError", "No such file or directory", cmd, 0, <<cmd>>)
      [] outcome.how = "timeout" ->
           GitRaise("TimeoutExpired", "timed out", cmd, 0, <<cmd>>)
      [] outcome.how = "exit" ->
           IF check /\ outcome.returncode # 0
           THEN GitRaise("CalledProcessError", "returned non-zero exit status",
                         cmd, outcome.returncode, <<cmd>>)
           ELSE [GitReturn(FALSE, <<>>, outcome.stdout, FALSE, <<cmd>>)
                     EXCEPT !.returncode = outcome.returncode]

\* str.lstrip(), str.strip()
RECURSIVE lstrip(_)
lstrip(text) ==
    IF text # <<>> /\ Head(text) \in Whitespace THEN lstrip(Tail(text)) ELSE text

RECURSIVE strip(_)
strip(text) ==
    IF text # <<>> /\ text[Len(text)] \in Whitespace
    THEN strip(SubSeq(text, 1, Len(text) - 1))
    ELSE lstrip(text)

\* str.split("\n")
RECURSIVE split(_)
split(text) ==
    IF \A i \in 1 .. Len(text) : text[i] # "LF" THEN <<text>>
    ELSE LET i == CHOOSE k \in 1 .. Len(text) :
                      text[k] = "LF" /\ \A j \in 1 .. k - 1 : text[j] # "LF"
         IN  <<SubSeq(text, 1, i - 1)>> \o split(SubSeq(text, i + 1, Len(text)))

\* [f for f in files if f]
RECURSIVE non_empty(_)
non_empty(names) ==
    IF names = <<>> THEN <<>>
    ELSE IF Head(names) = <<>> THEN non_empty(Tail(names))
    ELSE <<Head(names)>> \o non_empty(Tail(names))

\* is_git_repository that lets a missing git and a timeout through
is_git_repository_uncaught(directory, probe) ==
    LET r == subprocess_run(<<"git", "-C", directory, "rev-parse", "--git-dir">>,
                            TRUE, probe)
    IN  IF r.ok THEN GitReturn(TRUE, <<>>, <<>>, FALSE, r.ran)
        ELSE IF r.kind = "CalledProcessError"
        THEN GitReturn(FALSE, <<>>, <<>>, FALSE, r.ran)
        ELSE r

is_git_repository(directory, probe) ==
    LET r == subprocess_run(<<"git", "-C", directory, "rev-parse", "--git-dir">>,
                            TRUE, probe)
    IN  IF r.ok THEN GitReturn(TRUE, <<>>, <<>>, FALSE, r.ran)
        ELSE IF r.kind \in {"CalledProcessError", "FileNotFoundError", "TimeoutExpired"}
        THEN GitReturn(FALSE, <<>>, <<>>, FALSE, r.ran)
        ELSE r

NotARepository(ran) ==
    GitRaise("ValueError", "Directory is not a Git repository", <<>>, 0, ran)

\* the body that get_changed_files, get_staged_files, get_unstaged_files and
\* get_untracked_files share: the probe, then cmd, whose output lines are the
\* names; CalledProcessError and TimeoutExpired are raised again with the
\* fields of the original, any other exception passes
list_files(directory, cmd, probe, run) ==
    LET p == is_git_repository(directory, probe)
    IN  IF ~p.ok THEN p
        ELSE IF ~p.flag THEN NotARepository(p.ran)
        ELSE LET r == subprocess_run(cmd, TRUE, run)
             IN  IF r.ok
                 THEN GitReturn(FALSE, non_empty(split(strip(r.text))), <<>>, FALSE,
                                p.ran \o r.ran)
                 ELSE [r EXCEPT !.ran = p.ran \o r.ran]

\* get_changed_files that takes a failed diff for no changes
get_changed_files_swallowing(directory, base_ref, probe, run) ==
    LET r == list_files(directory,
                        <<"git", "-C", directory, "diff", "--name-only",
                          IF base_ref = None THEN "HEAD" ELSE base_ref>>,
                        probe, run)
    IN  IF ~r.ok /\ r.kind \in {"CalledProcessError", "TimeoutExpired"}
        THEN GitReturn(FALSE, <<>>, <<>>, FALSE, r.ran)
        ELSE r

get_changed_files(directory, base_ref, probe, run) ==
    list_files(directory,
               <<"git", "-C", directory, "diff", "--name-only",
                 IF base_ref = None THEN "HEAD" ELSE base_ref>>,
               probe, run)

get_staged_files(directory, probe, run) ==
    list_files(directory,
               <<"git", "-C", directory, "diff", "--cached", "--name-only">>,
               probe, run)

get_unstaged_files(directory, probe, run) ==
    list_files(directory, <<"git", "-C", directory, "diff", "--name-only">>,
               probe, run)

get_untracked_files(directory, probe, run) ==
    list_files(directory,
               <<"git", "-C", directory, "ls-files", "--others",
                 "--exclude-standard">>,
               probe, run)

get_file_status(directory, file_path, probe, run) ==
    LET p == is_git_repository(directory, probe)
    IN  IF ~p.ok THEN p
        ELSE IF ~p.flag THEN NotARepository(p.ran)
        ELSE LET r == subprocess_run(<<"git", "-C", directory, "status",
                                       "--porcelain", file_path>>, TRUE, run)
                 output == strip(r.text)
             IN  IF ~r.ok THEN [r EXCEPT !.ran = p.ran \o r.ran]
                 ELSE IF output # <<>>
                 THEN GitReturn(FALSE, <<>>, Prefix(output, 2), FALSE, p.ran \o r.ran)
                 ELSE GitReturn(FALSE, <<>>, <<>>, TRUE, p.ran \o r.ran)

\* the body that get_repository_root and get_current_branch share: the
\* stripped output of cmd, None when git fails, is missing or times out
rev_parse(cmd, run) ==
    LET r == subprocess_run(cmd, TRUE, run)
    IN  IF r.ok THEN GitReturn(FALSE, <<>>, strip(r.text), FALSE, r.ran)
        ELSE IF r.kind \in {"CalledProcessError", "FileNotFoundError", "TimeoutExpired"}
        THEN GitReturn(FALSE, <<>>, <<>>, TRUE, r.ran)
        ELSE r

get_repository_root(directory, run) ==
    rev_parse(<<"git", "-C", directory, "rev-parse", "--show-toplevel">>, run)

get_current_branch(directory, run) ==
    rev_parse(<<"git", "-C", directory, "rev-parse", "--abbrev-ref", "HEAD">>, run)

\* get_commit_hash that runs git with check=True and catches what the code catches
get_commit_hash_checked(directory, short, run) ==
    LET r == subprocess_run(<<"git", "-C", directory, "rev-parse", "HEAD">>, TRUE, run)
        commit == strip(r.text)
    IN  IF r.ok
        THEN GitReturn(FALSE, <<>>, IF short THEN Prefix(commit, 7) ELSE commit,
                       FALSE, r.ran)
        ELSE IF r.kind \in {"TimeoutExpired", "FileNotFoundError"}
        THEN GitReturn(FALSE, <<>>, <<>>, TRUE, r.ran)
        ELSE r

get_commit_hash(directory, short, run) ==
    LET r == subprocess_run(<<"git", "-C", directory, "rev-parse", "HEAD">>, FALSE, run)
        commit == strip(r.text)
    IN  IF r.ok
        THEN IF r.returncode = 0
             THEN GitReturn(FALSE, <<>>, IF short THEN Prefix(commit, 7) ELSE commit,
                            FALSE, r.ran)
             ELSE GitReturn(FALSE, <<>>, <<>>, TRUE, r.ran)
        ELSE IF r.kind \in {"TimeoutExpired", "FileNotFoundError"}
        THEN GitReturn(FALSE, <<>>, <<>>, TRUE, r.ran)
        ELSE r

----------------------------------------------------------------------------
(* modules/utils/env_utils.py: the monorepo queries, over the file system of *)
(* file_utils, and the tool probes, over the outcomes of a child process.    *)
(* str(path) is the sequence of the names of the path and the "/" between    *)
(* them; the names used here are one character long below the root, so the   *)
(* order of these sequences is the order of the strings.                     *)

pyproject_toml == Name("pyproject", ".toml")

\* pathlib.Path(root).rglob(name): every path below root with that name
rglob(fs, root, name) ==
    {p \in DOMAIN fs :
        /\ Len(p) > Len(root)
        /\ SubSeq(p, 1, Len(root)) = root
        /\ p[Len(p)] = name}

RECURSIVE str(_)
str(path) ==
    IF path = <<>> THEN <<>>
    ELSE IF Len(path) = 1 THEN <<path[1].stem \o path[1].suffix>>
    ELSE str(parent(path)) \o <<"/", path[Len(path)].stem \o path[Len(path)].suffix>>

\* the place of a name or of "/" in the order of strings: "/" is before every
\* letter
ord(c) == CASE c = "/" -> 0 [] c = "a" -> 1 [] c = "b" -> 2 [] OTHER -> 3

\* s < t for two strings
RECURSIVE str_lt(_, _)
str_lt(s, t) ==
    IF t = <<>> THEN FALSE
    ELSE IF s = <<>> THEN TRUE
    ELSE IF Head(s) = Head(t) THEN str_lt(Tail(s), Tail(t))
    ELSE ord(Head(s)) < ord(Head(t))

\* sorted(strs), for strings that differ from each other
RECURSIVE sorted(_)
sorted(strs) ==
    IF strs = {} THEN <<>>
    ELSE LET least == CHOOSE s \in strs : \A t \in strs \ {s} : str_lt(s, t)
         IN  <<least>> \o sorted(strs \ {least})

\* is_monorepo that also counts the pyproject.toml of the root
is_monorepo_counting_root(fs, project_path) ==
    IF ~is_dir(fs, project_path) THEN FALSE
    ELSE Cardinality(rglob(fs, project_path, pyproject_toml)) > 0

is_monorepo(fs, project_path) ==
    IF ~is_dir(fs, project_path) THEN FALSE
    ELSE Cardinality({item \in rglob(fs, project_path, pyproject_toml) :
                         parent(item) # project_path}) > 0

get_monorepo_packages(fs, project_path) ==
    IF ~is_monorepo(fs, project_path)
    THEN GitRaise("ValueError", "is not a monorepo", <<>>, 0, <<>>)
    ELSE GitReturn(FALSE,
                   sorted({str(parent(pyproject)) :
                              pyproject \in {p \in rglob(fs, project_path, pyproject_toml) :
                                                parent(p) # project_path}}),
                   <<>>, FALSE, <<>>)

check_tool_installed(tool_name, run) ==
    LET r == subprocess_run(<<tool_name, "--version">>, TRUE, run)
    IN  IF r.ok THEN GitReturn(TRUE, <<>>, <<>>, FALSE, r.ran)
        ELSE IF r.kind \in {"CalledProcessError", "FileNotFoundError", "TimeoutExpired"}
        THEN GitReturn(FALSE, <<>>, <<>>, FALSE, r.ran)
        ELSE r

\* get_tool_version that runs the tool with check=False
get_tool_version_unchecked(tool_name, run) ==
    LET r == subprocess_run(<<tool_name, "--version">>, FALSE, run)
    IN  IF r.ok THEN GitReturn(FALSE, <<>>, strip(r.text), FALSE, r.ran)
        ELSE IF r.kind \in {"CalledProcessError", "FileNotFoundError", "TimeoutExpired"}
        THEN GitReturn(FALSE, <<>>, <<>>, TRUE, r.ran)
        ELSE r

get_tool_version(tool_name, run) ==
    LET r == subprocess_run(<<tool_name, "--version">>, TRUE, run)
    IN  IF r.ok THEN GitReturn(FALSE, <<>>, strip(r.text), FALSE, r.ran)
        ELSE IF r.kind \in {"CalledProcessError", "FileNotFoundError", "TimeoutExpired"}
        THEN GitReturn(FALSE, <<>>, <<>>, TRUE, r.ran)
        ELSE r

----------------------------------------------------------------------------
(* Input domains *)

Paths == {"", "a.py"}
Lines == 0 .. MaxLine
IssueCodes == {"", "E501"}
Messages == {"", "Line too long"}
Suggestions == {None, "Break the line"}
Sources == {"", "pyright", "ruff", "flake8"}

IssueArgs ==
    [file_path : Paths, line : Lines, column : Lines,
     severity : SeverityMembers, category : IssueCategoryMembers,
     code : IssueCodes, message : Messages,
     suggestion : Suggestions, source : Sources]

\* every Issue the constructor returns for these arguments
ValidIssues == {Issue(a).val : a \in {b \in IssueArgs : Issue(b).ok}}

Snippets == {"", "x = 1", "x = 2"}
Explanations == {"", "Use 2"}

FixArgs ==
    [file_path : Paths, original_code : Snippets, fixed_code : Snippets,
     issue : ValidIssues, explanation : Explanations, safe : BOOLEAN]

Counts == -1 .. MaxCount
Totals == -1 .. 3 * MaxCount
CategoryCounts == {EmptyDict, ("type-error" :> 1)}
FileCounts == {EmptyDict, ("a.py" :> 1)}

ReportSummaryArgs ==
    [total_issues : Totals, errors : Counts, warnings : Counts, infos : Counts,
     by_category : CategoryCounts, by_file : FileCounts]

ToolConfigs == {EmptyDict, ("strict" :> "true")}
Exclusions == {EmptyList, <<"*.pyc">>}

ConfigArgs ==
    [project_path : Paths, pyright_config : ToolConfigs, ruff_config : ToolConfigs,
     exclusions : Exclusions, google_style_guide : BOOLEAN,
     auto_fix_enabled : BOOLEAN, backup_enabled : BOOLEAN, dry_run : BOOLEAN]

\* the lists of at most MaxList elements of S
Lists(S) == UNION {[1 .. n -> S] : n \in 0 .. MaxList}

\* the restrictions of a mapping to the subsets of its keys
Restrictions(data) == {[k \in K |-> data[k]] : K \in SUBSET DOMAIN data}

\* the keyword arguments of a Config call: project_path, and any of the other
\* fields
ConfigKeywordArgs ==
    {kw \in UNION {Restrictions(a) : a \in ConfigArgs} : "project_path" \in DOMAIN kw}

Issue1Kw ==
    [file_path |-> "a.py", line |-> 1, column |-> 1, severity |-> "ERROR",
     category |-> "TYPE_ERROR", code |-> "E501", message |-> "Line too long",
     source |-> "pyright"]
Issue2Kw ==
    [file_path |-> "a.py", line |-> MaxLine, column |-> 1, severity |-> "WARNING",
     category |-> "STYLE_VIOLATION", code |-> "E501", message |-> "Line too long",
     suggestion |-> "Break the line", source |-> "ruff"]
Fix1Kw(issue) ==
    [file_path |-> "a.py", original_code |-> "x = 1", fixed_code |-> "x = 2",
     issue |-> issue, explanation |-> "Use 2"]
Fix2Kw(issue) ==
    [file_path |-> "a.py", original_code |-> "", fixed_code |-> "x = 1",
     issue |-> issue, explanation |-> "Use 2", safe |-> FALSE]
Summary1Kw ==
    [total_issues |-> 0, errors |-> 0, warnings |-> 0, infos |-> 0]
Summary2Kw ==
    [total_issues |-> 2, errors |-> 1, warnings |-> 1, infos |-> 0,
     by_category |-> ("type-error" :> 1), by_file |-> ("a.py" :> 1)]
Config1Kw ==
    [project_path |-> "a.py", pyright_config |-> ("strict" :> "true"),
     ruff_config |-> ("strict" :> "true"), exclusions |-> <<"*.pyc">>,
     google_style_guide |-> FALSE, auto_fix_enabled |-> FALSE,
     backup_enabled |-> FALSE, dry_run |-> TRUE]

Issue1 == Issue(Issue1Kw).val
Issue2 == Issue(Issue2Kw).val
Fix1 == Fix(Fix1Kw(Issue1)).val
Fix2 == Fix(Fix2Kw(Issue2)).val
Summary1 == ReportSummary(Summary1Kw).val
Summary2 == ReportSummary(Summary2Kw).val
Config1 == Config(Config1Kw).val

Timestamps ==
    [second : {0, 59}, microsecond : {0, 5}, utcoffset : {None, "+00:00", "+01:00"}]

ReportArgs ==
    [issues : Lists({Issue1, Issue2}), fixes : Lists({Fix1, Fix2}),
     summary : {Summary1, Summary2}, timestamp : Timestamps, project_path : Paths]

Report1 ==
    Report([issues |-> <<Issue1>>, fixes |-> <<Fix1>>, summary |-> Summary2,
            timestamp |-> [second |-> 59, microsecond |-> 5, utcoffset |-> "+01:00"],
            project_path |-> "a.py"]).val

\* Mappings handed to from_dict: every combination of values for the full set of
\* keys, and every subset of the keys of a serialised instance.
SeverityTexts == {"error", "warning", "info", "ERROR", "fatal"}
CategoryTexts == {"type-error", "style-violation", "import-issue", "TYPE_ERROR", "bug"}

IssueDicts ==
    [file_path : Paths, line : Lines, column : Lines,
     severity : SeverityTexts, category : CategoryTexts,
     code : IssueCodes, message : Messages,
     suggestion : Suggestions, source : Sources]
    \cup Restrictions(Issue_to_dict(Issue1)) \cup Restrictions(Issue_to_dict(Issue2))

\* mappings of an Issue nested in another mapping: valid, an enumeration member's
\* name in place of its value, a violated invariant, a missing key
NestedIssueDicts ==
    {Issue_to_dict(Issue1),
     [Issue_to_dict(Issue2) EXCEPT !.severity = "WARNING"],
     [Issue_to_dict(Issue2) EXCEPT !.line = 0],
     Without(Issue_to_dict(Issue2), "line")}

FixDicts ==
    [file_path : Paths, original_code : Snippets, fixed_code : Snippets,
     issue : NestedIssueDicts \cup {Issue_to_dict(Issue2)},
     explanation : Explanations, safe : BOOLEAN]
    \cup Restrictions(Fix_to_dict(Fix1)) \cup Restrictions(Fix_to_dict(Fix2))

ReportSummaryDicts ==
    ReportSummaryArgs
    \cup Restrictions(ReportSummary_to_dict(Summary1))
    \cup Restrictions(ReportSummary_to_dict(Summary2))

ConfigDicts ==
    ConfigArgs \cup Restrictions(Config_to_dict(Config1))

NestedFixDicts ==
    {Fix_to_dict(Fix1),
     [Fix_to_dict(Fix2) EXCEPT !.fixed_code = ""],
     [Fix_to_dict(Fix2) EXCEPT !.issue = Without(Issue_to_dict(Issue2), "source")],
     [Fix_to_dict(Fix1) EXCEPT !.issue.category = "TYPE_ERROR"]}

NestedSummaryDicts ==
    {ReportSummary_to_dict(Summary2),
     [ReportSummary_to_dict(Summary2) EXCEPT !.total_issues = 3]}

TimestampTexts ==
    {isoformat([second |-> 0, microsecond |-> 0, utcoffset |-> None]),
     isoformat([second |-> 59, microsecond |-> 5, utcoffset |-> "+01:00"]),
     <<>>,
     <<[part |-> "time", text |-> 0], [part |-> "garbage", text |-> "x"]>>}

\* mappings of a Report: lists of a valid and an invalid nested mapping, and a
\* serialised Report with one nested mapping replaced or with keys removed
ReportDicts ==
    [issues : Lists({Issue_to_dict(Issue1),
                     [Issue_to_dict(Issue2) EXCEPT !.severity = "WARNING"]}),
     fixes : Lists({Fix_to_dict(Fix1),
                    [Fix_to_dict(Fix1) EXCEPT !.issue.category = "TYPE_ERROR"]}),
     summary : NestedSummaryDicts, timestamp : TimestampTexts, project_path : Paths]
    \cup {[Report_to_dict(Report1) EXCEPT !.issues = <<d>>] : d \in NestedIssueDicts}
    \cup {[Report_to_dict(Report1) EXCEPT !.fixes = <<d>>] : d \in NestedFixDicts}
    \cup Restrictions(Report_to_dict(Report1))

Input(cls, kind, S) == {[cls |-> cls, kind |-> kind, v |-> x] : x \in S}

Inputs ==
    Input("Issue", "args", IssueArgs) \cup Input("Issue", "data", IssueDicts)
    \cup Input("Fix", "args", FixArgs) \cup Input("Fix", "data", FixDicts)
    \cup Input("ReportSummary", "args", ReportSummaryArgs)
    \cup Input("ReportSummary", "data", ReportSummaryDicts)
    \cup Input("Report", "args", ReportArgs) \cup Input("Report", "data", ReportDicts)
    \cup Input("Config", "args", ConfigKeywordArgs) \cup Input("Config", "data", ConfigDicts)

----------------------------------------------------------------------------
(* Spec: one caller, one input. The caller constructs an instance from the   *)
(* arguments it drew, or deserialises the mapping it drew; it serialises the *)
(* instance it holds and deserialises the mapping it got.                    *)

NoCall == [op |-> "", ok |-> TRUE, kind |-> "", msg |-> ""]

Call(op, r) == [op |-> op, ok |-> r.ok, kind |-> r.kind, msg |-> r.msg]

Init ==
    /\ pc = "start"
    /\ inp \in Inputs
    /\ cur = NoObj
    /\ orig = NoObj
    /\ last = NoCall
    /\ heap = <<>>
    /\ files = NoFiles /\ now = 0 /\ taken = {}

\* the caller calls cls(**inp.v) and keeps what it returns
Construct(cls, r) ==
    /\ pc = "start"
    /\ inp.cls = cls /\ inp.kind = "args"
    /\ cur' = r.val
    /\ last' = Call(cls, r)
    /\ pc' = IF r.ok THEN "built" ELSE "failed"
    /\ UNCHANGED <<inp, orig, heap, disk>>

\* the caller calls cur.to_dict() and keeps the mapping
Dump(cls, data) ==
    /\ pc \in {"built", "loaded"}
    /\ cur.cls = cls
    /\ cur' = data
    /\ orig' = cur
    /\ last' = Call("to_dict", Return(data))
    /\ pc' = "dumped"
    /\ UNCHANGED <<inp, heap, disk>>

\* the caller calls cls.from_dict on the mapping it drew or on the mapping it got
\* from to_dict
Load(cls, r) ==
    /\ \/ pc = "start" /\ inp.cls = cls /\ inp.kind = "data"
       \/ pc = "dumped" /\ orig.cls = cls
    /\ cur' = r.val
    /\ last' = Call("from_dict", r)
    /\ pc' = IF r.ok THEN "loaded" ELSE "failed"
    /\ UNCHANGED <<inp, orig, heap, disk>>

\* the argument of from_dict in Load
Arg == IF pc = "start" THEN inp.v ELSE cur

NewIssue == Construct("Issue", Issue(inp.v))
IssueToDict == Dump("Issue", Issue_to_dict(cur))
IssueFromDict == Load("Issue", Issue_from_dict(Arg))

\* the caller calls Issue(...) with the arguments it drew, but passes no source
NewIssueWithoutSource ==
    /\ pc = "start"
    /\ inp.cls = "Issue" /\ inp.kind = "args"
    /\ LET r == Issue(Without(inp.v, "source"))
       IN /\ cur' = r.val
          /\ last' = Call("Issue without source", r)
          /\ pc' = IF r.ok THEN "built" ELSE "failed"
    /\ UNCHANGED <<inp, orig, heap, disk>>

NewFix == Construct("Fix", Fix(inp.v))
FixToDict == Dump("Fix", Fix_to_dict(cur))
FixFromDict == Load("Fix", Fix_from_dict(Arg))

NewReportSummary == Construct("ReportSummary", ReportSummary(inp.v))
ReportSummaryToDict == Dump("ReportSummary", ReportSummary_to_dict(cur))
ReportSummaryFromDict == Load("ReportSummary", ReportSummary_from_dict(Arg))

NewReport == Construct("Report", Report(inp.v))
ReportToDict == Dump("Report", Report_to_dict(cur))
ReportFromDict == Load("Report", Report_from_dict(Arg))

NewConfig == Construct("Config", Config(inp.v))
ConfigToDict == Dump("Config", Config_to_dict(cur))
ConfigFromDict == Load("Config", Config_from_dict(Arg))

Next ==
    \/ NewIssue \/ NewIssueWithoutSource \/ IssueToDict \/ IssueFromDict
    \/ NewFix \/ FixToDict \/ FixFromDict
    \/ NewReportSummary \/ ReportSummaryToDict \/ ReportSummaryFromDict
    \/ NewReport \/ ReportToDict \/ ReportFromDict
    \/ NewConfig \/ ConfigToDict \/ ConfigFromDict

Spec == Init /\ [][Next]_vars

----------------------------------------------------------------------------
(* SpecHeap: instances as objects. A reference is an index into heap, 0 is   *)
(* no reference. A Fix holds a reference to the Issue it was constructed     *)
(* with, a Report holds lists of references. The classes are plain           *)
(* dataclasses (not frozen, no __setattr__), so obj.field = value stores the *)
(* value and runs no validation.                                             *)

HeapCall(op, r, ref, via) ==
    [op |-> op, ok |-> r.ok, kind |-> r.kind, msg |-> r.msg, ref |-> ref, via |-> via]

InitHeap ==
    /\ pc = "heap"
    /\ inp = NoObj
    /\ cur = NoObj
    /\ orig = NoObj
    /\ last = HeapCall("", Return(NoObj), 0, 0)
    /\ heap = <<>>
    /\ files = NoFiles /\ now = 0 /\ taken = {}

Refs(cls) == {r \in 1 .. Len(heap) : heap[r].cls = cls}

\* the caller calls a constructor and keeps a reference to what it returns
Alloc(op, r) ==
    /\ pc = "heap"
    /\ Len(heap) < MaxObjs
    /\ heap' = IF r.ok THEN Append(heap, r.val) ELSE heap
    /\ last' = HeapCall(op, r, IF r.ok THEN Len(heap) + 1 ELSE 0, 0)
    /\ UNCHANGED <<pc, inp, cur, orig, disk>>

AllocIssue ==
    \E kw \in {Issue1Kw, Issue2Kw, [Issue1Kw EXCEPT !.line = 0]} :
        Alloc("Issue", Issue(kw))

AllocFix ==
    \E i \in Refs("Issue") :
        \E kw \in {Fix1Kw(i), Fix2Kw(i), [Fix1Kw(i) EXCEPT !.fixed_code = "x = 1"]} :
            Alloc("Fix", Fix(kw))

AllocReportSummary ==
    \E kw \in {Summary2Kw, [Summary2Kw EXCEPT !.total_issues = 3]} :
        Alloc("ReportSummary", ReportSummary(kw))

\* the lists of at most MaxList distinct elements of S, in increasing order
RefLists(S) ==
    {l \in UNION {[1 .. n -> S] : n \in 0 .. MaxList} :
        \A i \in 1 .. Len(l) - 1 : l[i] < l[i + 1]}

AllocReport ==
    \E s \in Refs("ReportSummary") :
        \E is \in RefLists(Refs("Issue")), fs \in RefLists(Refs("Fix")) :
            \E path \in Paths :
                Alloc("Report",
                      Report([issues |-> is, fixes |-> fs, summary |-> s,
                              timestamp |-> [second |-> 0, microsecond |-> 0,
                                             utcoffset |-> None],
                              project_path |-> path]))

AllocConfig ==
    \E kw \in {Config1Kw, [Config1Kw EXCEPT !.project_path = ""]} :
        Alloc("Config", Config(kw))

\* the assignments the caller tries
Assignments ==
    <<[cls |-> "Issue", field |-> "line", value |-> 0],
     [cls |-> "Issue", field |-> "message", value |-> "Unused import"],
     [cls |-> "Fix", field |-> "fixed_code", value |-> "x = 1"],
     [cls |-> "Fix", field |-> "safe", value |-> FALSE],
     [cls |-> "ReportSummary", field |-> "errors", value |-> 2],
     [cls |-> "Report", field |-> "project_path", value |-> ""],
     [cls |-> "Config", field |-> "project_path", value |-> ""],
     [cls |-> "Config", field |-> "dry_run", value |-> TRUE]>>

\* target.field = value, where the caller reached target through via (0: through
\* its own reference)
Store(target, via, a) ==
    /\ pc = "heap"
    /\ a.cls = heap[target].cls
    /\ heap' = [heap EXCEPT ![target][a.field] = a.value]
    /\ last' = HeapCall("setattr", Return(NoObj), target, via)
    /\ UNCHANGED <<pc, inp, cur, orig, disk>>

\* obj.field = value
SetAttr ==
    \E r \in 1 .. Len(heap) : \E n \in DOMAIN Assignments : Store(r, 0, Assignments[n])

\* fix.issue.field = value
SetAttrOfFixIssue ==
    \E f \in Refs("Fix") : \E n \in DOMAIN Assignments : Store(heap[f].issue, f, Assignments[n])

\* report.issues[k].field = value
SetAttrOfReportIssue ==
    \E p \in Refs("Report") : \E k \in 1 .. Len(heap[p].issues) :
        \E n \in DOMAIN Assignments : Store(heap[p].issues[k], p, Assignments[n])

NextHeap ==
    \/ AllocIssue \/ AllocFix \/ AllocReportSummary \/ AllocReport \/ AllocConfig
    \/ SetAttr \/ SetAttrOfFixIssue \/ SetAttrOfReportIssue

SpecHeap == InitHeap /\ [][NextHeap]_vars

----------------------------------------------------------------------------
(* SpecFS: one caller of file_utils on a temporary directory, as in           *)
(* tests/test_file_utils.py. The directory holds test.py or not; the caller   *)
(* calls the functions in any order on the directory, on test.py and on       *)
(* sub/test.py. A call reads the clock when it starts and takes one tick;      *)
(* more time may pass between two calls.                                      *)

temp_dir == <<Name("tmp", "")>>
test_file == temp_dir \o <<Name("test", ".py")>>
nested_file == temp_dir \o <<Name("sub", ""), Name("test", ".py")>>

FilePaths == {temp_dir, test_file, nested_file}

Texts == {<<>>, <<"x">>, <<"x", "CR">>, <<"SURR">>}

InitialFiles ==
    {With(NoFiles, temp_dir, Directory)}
    \cup {With(With(NoFiles, temp_dir, Directory), test_file, RegularFile(encode(c).val)) :
              c \in {c \in Texts : encode(c).ok}}

\* a call and its outcome: the function, the path it was called on, whether
\* it returned, the error it raised; text is the text read_file returned or
\* write_file was called with, backup the path create_backup returned, status
\* what fix application reported
FSCall(op, path, r) ==
    [op |-> op, ok |-> r.ok, kind |-> r.kind, msg |-> r.msg, path |-> path,
     text |-> NoText, backup |-> NoPath, status |-> ""]

InitFS ==
    /\ pc = "fs"
    /\ inp = NoObj
    /\ cur = NoObj
    /\ orig = NoObj
    /\ last = FSCall("", <<>>, Return(None))
    /\ heap = <<>>
    /\ files \in InitialFiles
    /\ now = 0
    /\ taken = {}

\* the caller lets one tick pass
Tick ==
    /\ pc = "fs"
    /\ now < MaxTime
    /\ now' = now + 1
    /\ last' = FSCall("sleep", <<>>, Return(None))
    /\ UNCHANGED <<pc, inp, cur, orig, heap, files, taken>>

CreateBackup ==
    /\ pc = "fs"
    /\ now < MaxTime
    /\ \E file_path \in FilePaths, io \in IOOutcomes :
           LET r == create_backup(files, now, file_path, io)
           IN  /\ files' = r.fs
               /\ last' = [FSCall("create_backup", file_path, r.res) EXCEPT
                               !.backup = IF r.res.ok THEN r.res.val ELSE NoPath]
               /\ taken' = IF r.res.ok
                           THEN taken \cup {[path |-> r.res.val,
                                             content |-> files[file_path].content]}
                           ELSE taken
    /\ now' = now + 1
    /\ UNCHANGED <<pc, inp, cur, orig, heap>>

ReadFile ==
    /\ pc = "fs"
    /\ now < MaxTime
    /\ \E file_path \in FilePaths, io \in IOOutcomes :
           LET r == read_file(files, file_path, io)
           IN  last' = [FSCall("read_file", file_path, r) EXCEPT
                            !.text = IF r.ok THEN r.val ELSE NoText]
    /\ now' = now + 1
    /\ UNCHANGED <<pc, inp, cur, orig, heap, files, taken>>

WriteFile ==
    /\ pc = "fs"
    /\ now < MaxTime
    /\ \E file_path \in FilePaths, content \in Texts, io \in IOOutcomes :
           LET r == write_file(files, file_path, content, io)
           IN  /\ files' = r.fs
               /\ last' = [FSCall("write_file", file_path, r.res) EXCEPT !.text = content]
    /\ now' = now + 1
    /\ UNCHANGED <<pc, inp, cur, orig, heap, taken>>

DeleteFile ==
    /\ pc = "fs"
    /\ now < MaxTime
    /\ \E file_path \in FilePaths, io \in {IOOk, IODenied} :
           LET r == delete_file(files, file_path, io)
           IN  /\ files' = r.fs
               /\ last' = FSCall("delete_file", file_path, r.res)
    /\ now' = now + 1
    /\ UNCHANGED <<pc, inp, cur, orig, heap, taken>>

NextFS == Tick \/ CreateBackup \/ ReadFile \/ WriteFile \/ DeleteFile

SpecFS == InitFS /\ [][NextFS]_vars

----------------------------------------------------------------------------
(* Fix application: the protocol of section 4.2 of the design, which an      *)
(* orchestrator outside modules/ composes from read_file, create_backup and  *)
(* write_file: read the file, compare with Fix.original_code, back up, write *)
(* Fix.fixed_code; dry_run skips the backup and the write, backup_enabled =  *)
(* False skips the backup. The file can be read; the backup and the write    *)
(* may fail.                                                                 *)

Applied(status, backup) == [status |-> status, backup |-> backup]

apply_fix(fs, t, config, fix, io_backup, io_write) ==
    LET current == read_file(fs, fix.file_path, IOOk)
        backup == IF config.backup_enabled
                  THEN create_backup(fs, t, fix.file_path, io_backup)
                  ELSE Outcome(Return(NoPath), fs)
        written == write_file(backup.fs, fix.file_path, fix.fixed_code, io_write)
    IN  IF ~current.ok THEN Outcome(current, fs)
        ELSE IF current.val # fix.original_code
        THEN Outcome(Return(Applied("stale", NoPath)), fs)
        ELSE IF config.dry_run THEN Outcome(Return(Applied("dry_run", NoPath)), fs)
        ELSE IF ~backup.res.ok THEN backup
        ELSE IF ~written.res.ok THEN written
        ELSE Outcome(Return(Applied("applied", backup.res.val)), written.fs)

\* the Config fields fix application reads
FixConfigs == [backup_enabled : BOOLEAN, dry_run : BOOLEAN]

\* the Fix fields fix application reads; original_code and fixed_code differ
\* in every Fix
Fixes ==
    {f \in [file_path : {test_file}, original_code : Texts, fixed_code : Texts] :
         f.original_code # f.fixed_code}

IOPlans ==
    {<<io, IOOk>> : io \in IOOutcomes} \cup {<<IOOk, io>> : io \in IOOutcomes}

\* SpecFix: an orchestrator with one Config and one Fix applies the fix, again
\* and again
InitFix ==
    /\ pc = "fs"
    /\ inp \in [cls : {"apply_fix"}, config : FixConfigs, fix : Fixes]
    /\ cur = NoObj
    /\ orig = NoObj
    /\ last = FSCall("", <<>>, Return(None))
    /\ heap = <<>>
    /\ files \in InitialFiles
    /\ now = 0
    /\ taken = {}

ApplyFix ==
    /\ pc = "fs"
    /\ now < MaxTime
    /\ inp.cls = "apply_fix"
    /\ \E plan \in IOPlans :
           LET r == apply_fix(files, now, inp.config, inp.fix, plan[1], plan[2])
           IN  /\ files' = r.fs
               /\ last' = [FSCall("apply_fix", inp.fix.file_path, r.res) EXCEPT
                               !.status = IF r.res.ok THEN r.res.val.status ELSE "",
                               !.backup = IF r.res.ok THEN r.res.val.backup ELSE NoPath]
               /\ taken' = IF r.res.ok /\ r.res.val.backup # NoPath
                           THEN taken \cup {[path |-> r.res.val.backup,
                                             content |-> files[inp.fix.file_path].content]}
                           ELSE taken
    /\ now' = now + 1
    /\ UNCHANGED <<pc, inp, cur, orig, heap>>

NextFix == ApplyFix \/ Tick

SpecFix == InitFix /\ [][NextFix]_vars

----------------------------------------------------------------------------
(* SpecGit: one caller of git_utils on one directory, as in                   *)
(* tests/test_git_utils.py. The directory is inside a repository or not and   *)
(* git is installed or not; the caller calls the functions in any order, and  *)
(* every git process that a call runs has one of the outcomes that this       *)
(* allows. Any git process may run out of time.                               *)

repo_dir == "repo"

Worlds == [cls : {"git"}, inside : BOOLEAN, installed : BOOLEAN]

\* no process was run
NoRun == [how |-> "none", returncode |-> 0, stdout |-> <<>>]

\* the outcomes of a git command that prints one of outputs when it succeeds
\* inside a repository and exits with one of statuses when it fails there;
\* outside a repository git is fatal with status 128
GitOutcomes(world, outputs, statuses) ==
    IF ~world.installed THEN {NotFound}
    ELSE {TimedOut}
         \cup (IF ~world.inside THEN {Exited(128, <<>>)}
               ELSE {Exited(0, out) : out \in outputs}
                    \cup {Exited(rc, <<>>) : rc \in statuses})

ProbeOutcomes(world) == GitOutcomes(world, {<<".", "g", "i", "t", "LF">>}, {})

\* git diff --name-only, git ls-files: one name per line
NameOutputs == {<<>>, <<"a", "LF">>, <<"a", "LF", "b", "LF">>}

ListOutcomes(world) == GitOutcomes(world, NameOutputs, {1, 128})

\* the two-character codes of git status --porcelain: index, then working tree
PorcelainCodes == {<<" ", "M">>, <<"M", " ">>, <<"M", "M">>, <<"?", "?">>}

\* the line of git status --porcelain for a path
porcelain(code, path) == code \o <<" ", path, "LF">>

StatusOutcomes(world, path) ==
    GitOutcomes(world, {<<>>} \cup {porcelain(c, path) : c \in PorcelainCodes}, {128})

RootOutcomes(world) == GitOutcomes(world, {<<"/", "r", "LF">>}, {})

\* HEAD names no branch in a repository without a commit
BranchOutcomes(world) == GitOutcomes(world, {<<"m", "LF">>, <<"H", "LF">>}, {128})

HashOutcomes(world) ==
    GitOutcomes(world, {<<"0", "1", "2", "3", "4", "5", "6", "7", "LF">>}, {128})

GitCall(op, probe, run, r) ==
    [op |-> op, probe |-> probe, run |-> run, ok |-> r.ok, kind |-> r.kind,
     msg |-> r.msg, cmd |-> r.cmd, returncode |-> r.returncode, flag |-> r.flag,
     names |-> r.names, text |-> r.text, none |-> r.none, ran |-> r.ran]

InitGit ==
    /\ pc = "git"
    /\ inp \in Worlds
    /\ cur = NoObj
    /\ orig = NoObj
    /\ last = GitCall("", NoRun, NoRun, GitReturn(FALSE, <<>>, <<>>, TRUE, <<>>))
    /\ heap = <<>>
    /\ files = NoFiles /\ now = 0 /\ taken = {}

\* the caller calls a function of git_utils and sees what it returns or raises
GitStep(call) ==
    /\ pc = "git"
    /\ last' = call
    /\ UNCHANGED <<pc, inp, cur, orig, heap, disk>>

IsGitRepository ==
    \E probe \in ProbeOutcomes(inp) :
        GitStep(GitCall("is_git_repository", probe, NoRun,
                        is_git_repository(repo_dir, probe)))

GetChangedFiles ==
    \E base_ref \in {None, "main"} :
        \E probe \in ProbeOutcomes(inp), run \in ListOutcomes(inp) :
            GitStep(GitCall("get_changed_files", probe, run,
                            get_changed_files(repo_dir, base_ref, probe, run)))

GetStagedFiles ==
    \E probe \in ProbeOutcomes(inp), run \in ListOutcomes(inp) :
        GitStep(GitCall("get_staged_files", probe, run,
                        get_staged_files(repo_dir, probe, run)))

GetUnstagedFiles ==
    \E probe \in ProbeOutcomes(inp), run \in ListOutcomes(inp) :
        GitStep(GitCall("get_unstaged_files", probe, run,
                        get_unstaged_files(repo_dir, probe, run)))

GetUntrackedFiles ==
    \E probe \in ProbeOutcomes(inp), run \in ListOutcomes(inp) :
        GitStep(GitCall("get_untracked_files", probe, run,
                        get_untracked_files(repo_dir, probe, run)))

GetFileStatus ==
    \E file_path \in {"a", "b"} :
        \E probe \in ProbeOutcomes(inp), run \in StatusOutcomes(inp, file_path) :
            GitStep(GitCall("get_file_status", probe, run,
                            get_file_status(repo_dir, file_path, probe, run)))

GetRepositoryRoot ==
    \E run \in RootOutcomes(inp) :
        GitStep(GitCall("get_repository_root", NoRun, run,
                        get_repository_root(repo_dir, run)))

GetCurrentBranch ==
    \E run \in BranchOutcomes(inp) :
        GitStep(GitCall("get_current_branch", NoRun, run,
                        get_current_branch(repo_dir, run)))

GetCommitHash ==
    \E short \in BOOLEAN :
        \E run \in HashOutcomes(inp) :
            GitStep(GitCall("get_commit_hash", NoRun, run,
                            get_commit_hash(repo_dir, short, run)))

NextGit ==
    \/ IsGitRepository
    \/ GetChangedFiles \/ GetStagedFiles \/ GetUnstagedFiles \/ GetUntrackedFiles
    \/ GetFileStatus
    \/ GetRepositoryRoot \/ GetCurrentBranch \/ GetCommitHash

SpecGit == InitGit /\ [][NextGit]_vars

----------------------------------------------------------------------------
(* SpecEnv: one caller of env_utils, as in tests/test_env_utils.py. The       *)
(* temporary directory holds a project tree: directories a, b and a/b or not, *)
(* a pyproject.toml in the root and in each of them or not, and the file      *)
(* test.py. Each of the tools is installed or not. The caller asks in any     *)
(* order.                                                                     *)

pkg_a == temp_dir \o <<Name("a", "")>>
pkg_b == temp_dir \o <<Name("b", "")>>
pkg_ab == pkg_a \o <<Name("b", "")>>
missing_dir == temp_dir \o <<Name("c", "")>>

\* the tree with the directories dirs and a pyproject.toml in each of manifests
Tree(dirs, manifests) ==
    [p \in {temp_dir, test_file} \cup dirs \cup {d \o <<pyproject_toml>> : d \in manifests} |->
        IF p \in {temp_dir} \cup dirs THEN Directory ELSE RegularFile(<<>>)]

\* the sets of directories below the root: a/b needs a
DirSets == {ds \in SUBSET {pkg_a, pkg_b, pkg_ab} : pkg_ab \in ds => pkg_a \in ds}

ProjectTrees ==
    UNION {{Tree(ds, ms) : ms \in SUBSET (ds \cup {temp_dir})} : ds \in DirSets}

ProjectPaths == {temp_dir, pkg_a, test_file, missing_dir}

Tools == {"pyright", "ruff"}

ToolWorlds == [cls : {"env"}, installed : SUBSET Tools]

\* the outcomes of tool --version: a version on stdout, nothing on stdout, a
\* failure, no answer in time; no process when the tool is not installed
ToolOutcomes(world, tool_name) ==
    IF tool_name \notin world.installed THEN {NotFound}
    ELSE {TimedOut, Exited(0, <<"1", ".", "0", "LF">>), Exited(0, <<>>),
          Exited(1, <<>>), Exited(2, <<"u", "s", "a", "g", "e", "LF">>)}

EnvCall(op, path, run, r) ==
    [op |-> op, path |-> path, run |-> run, ok |-> r.ok, kind |-> r.kind,
     msg |-> r.msg, flag |-> r.flag, names |-> r.names, text |-> r.text,
     none |-> r.none]

InitEnv ==
    /\ pc = "env"
    /\ inp \in ToolWorlds
    /\ cur = NoObj
    /\ orig = NoObj
    /\ last = EnvCall("", <<>>, NoRun, GitReturn(FALSE, <<>>, <<>>, TRUE, <<>>))
    /\ heap = <<>>
    /\ files \in ProjectTrees
    /\ now = 0 /\ taken = {}

\* the caller calls a function of env_utils and sees what it returns or raises
EnvStep(call) ==
    /\ pc = "env"
    /\ last' = call
    /\ UNCHANGED <<pc, inp, cur, orig, heap, disk>>

IsMonorepo ==
    \E project_path \in ProjectPaths :
        EnvStep(EnvCall("is_monorepo", project_path, NoRun,
                        GitReturn(is_monorepo(files, project_path),
                                  <<>>, <<>>, FALSE, <<>>)))

GetMonorepoPackages ==
    \E project_path \in ProjectPaths :
        EnvStep(EnvCall("get_monorepo_packages", project_path, NoRun,
                        get_monorepo_packages(files, project_path)))

CheckToolInstalled ==
    \E tool_name \in Tools :
        \E run \in ToolOutcomes(inp, tool_name) :
            EnvStep(EnvCall("check_tool_installed", <<>>, run,
                            check_tool_installed(tool_name, run)))

GetToolVersion ==
    \E tool_name \in Tools :
        \E run \in ToolOutcomes(inp, tool_name) :
            EnvStep(EnvCall("get_tool_version", <<>>, run,
                            get_tool_version(tool_name, run)))

NextEnv == IsMonorepo \/ GetMonorepoPackages \/ CheckToolInstalled \/ GetToolVersion

SpecEnv == InitEnv /\ [][NextEnv]_vars

----------------------------------------------------------------------------
(* SpecShare: the dicts and lists that a ReportSummary and a Config hold, as  *)
(* objects. A cell of heap is a dict or a list (cls, items), an instance      *)
(* whose by_category, by_file, pyright_config, ruff_config and exclusions are *)
(* references to such cells, or a mapping that to_dict returned (cls, of,     *)
(* data), whose values under these keys are references too. The caller holds  *)
(* the mappings: it assigns to their keys, changes the dicts and lists it     *)
(* reaches through them, and passes them to from_dict. It never assigns to    *)
(* an instance. orig keeps, for every instance, its value when it was built.  *)

DictCell(items) == [cls |-> "dict", items |-> items]
ListCell(items) == [cls |-> "list", items |-> items]
MappingCell(of, data) == [cls |-> "mapping", of |-> of, data |-> data]

\* a ReportSummary built with two dicts of the caller's
SummaryHeap ==
    <<DictCell("type-error" :> 1), DictCell("a.py" :> 1),
      ReportSummary([Summary2Kw EXCEPT !.by_category = 1, !.by_file = 2]).val>>

\* a Config built with two dicts and a list of the caller's
ConfigHeap ==
    <<DictCell("strict" :> "true"), DictCell("strict" :> "true"),
      ListCell(<<"*.pyc">>),
      Config([Config1Kw EXCEPT !.pyright_config = 1, !.ruff_config = 2,
                               !.exclusions = 3]).val>>

\* the keys under which an instance of cls holds a dict or a list
ContainerFields(cls) ==
    IF cls = "ReportSummary" THEN {"by_category", "by_file"}
    ELSE {"pyright_config", "ruff_config", "exclusions"}

\* the value of the instance obj: its fields, with the content of the dicts and
\* the lists it refers to
Deep(h, obj) ==
    [f \in DOMAIN obj |->
        IF f \in ContainerFields(obj.cls) THEN h[obj[f]].items ELSE obj[f]]

Instances(h) == {r \in 1 .. Len(h) : h[r].cls \in {"ReportSummary", "Config"}}
Mappings(h) == {r \in 1 .. Len(h) : h[r].cls = "mapping"}

ShareCall(op, ok, ref, via) == [op |-> op, ok |-> ok, ref |-> ref, via |-> via]

InitShare ==
    /\ pc = "share"
    /\ inp = NoObj
    /\ cur = NoObj
    /\ heap \in {SummaryHeap, ConfigHeap}
    /\ orig = [r \in 1 .. Len(heap) |->
                  IF r \in Instances(heap) THEN Deep(heap, heap[r]) ELSE NoObj]
    /\ last = ShareCall("", TRUE, 0, 0)
    /\ files = NoFiles /\ now = 0 /\ taken = {}

\* m = heap[r].to_dict()
ToDictShare ==
    \E r \in Instances(heap) :
        /\ pc = "share"
        /\ Len(heap) < MaxCells
        /\ heap' = Append(heap,
                          MappingCell(heap[r].cls,
                                      IF heap[r].cls = "ReportSummary"
                                      THEN ReportSummary_to_dict(heap[r])
                                      ELSE Config_to_dict(heap[r])))
        /\ orig' = Append(orig, NoObj)
        /\ last' = ShareCall("to_dict", TRUE, Len(heap) + 1, r)
        /\ UNCHANGED <<pc, inp, cur, disk>>

\* v = cls.from_dict(m)
FromDictShare ==
    \E m \in Mappings(heap) :
        LET r == IF heap[m].of = "ReportSummary"
                 THEN ReportSummary_from_dict(heap[m].data)
                 ELSE Config_from_dict(heap[m].data)
        IN  /\ pc = "share"
            /\ Len(heap) < MaxCells
            /\ heap' = IF r.ok THEN Append(heap, r.val) ELSE heap
            /\ orig' = IF r.ok THEN Append(orig, Deep(heap, r.val)) ELSE orig
            /\ last' = ShareCall("from_dict", r.ok, IF r.ok THEN Len(heap) + 1 ELSE 0, m)
            /\ UNCHANGED <<pc, inp, cur, disk>>

\* m["total_issues"] = 3, respectively m["dry_run"] = False
SetKeyShare ==
    \E m \in Mappings(heap) :
        /\ pc = "share"
        /\ heap' = [heap EXCEPT ![m].data =
                        IF heap[m].of = "ReportSummary"
                        THEN [@ EXCEPT !.total_issues = 3]
                        ELSE [@ EXCEPT !.dry_run = FALSE]]
        /\ last' = ShareCall("setitem", TRUE, m, m)
        /\ UNCHANGED <<pc, inp, cur, orig, disk>>

\* m[key][k] = v for a dict, m[key].append(x) for a list
SetNestedShare ==
    \E m \in Mappings(heap) :
        \E key \in ContainerFields(heap[m].of) :
            LET c == heap[m].data[key]
            IN  /\ pc = "share"
                /\ heap[c].cls = "list" => Len(heap[c].items) < MaxList
                /\ heap' = [heap EXCEPT ![c].items =
                                IF heap[c].cls = "list" THEN Append(@, "*.log")
                                ELSE IF heap[m].of = "ReportSummary"
                                THEN ("style-violation" :> 1) @@ @
                                ELSE ("strict" :> "false") @@ @]
                /\ last' = ShareCall("setitem nested", TRUE, c, m)
                /\ UNCHANGED <<pc, inp, cur, orig, disk>>

NextShare == ToDictShare \/ FromDictShare \/ SetKeyShare \/ SetNestedShare

SpecShare == InitShare /\ [][NextShare]_vars

----------------------------------------------------------------------------
(* SpecRace: read_file, delete_file and create_backup step by step, next to   *)
(* another process. exists(), is_file() and the read, unlink or copy are      *)
(* separate system calls: the other process may remove test.py, or create     *)
(* it, between any two of them. inp is the call in progress.                  *)

\* the try block of read_file, on the file system as it is then:
\* FileNotFoundError is an OSError that is no PermissionError
read_file_try(fs, file_path, io) ==
    IF ~exists(fs, file_path) THEN Raise("OSError", "Failed to read")
    ELSE read_file(fs, file_path, io)

\* the try block of delete_file
delete_file_try(fs, file_path, io) ==
    IF ~exists(fs, file_path) THEN Outcome(Raise("OSError", "Failed to delete"), fs)
    ELSE delete_file(fs, file_path, io)

\* the timestamp, the backup path and the try block of create_backup
create_backup_try(fs, t, file_path, io) ==
    IF ~exists(fs, file_path)
    THEN Outcome(Raise("OSError", "Failed to create backup"), fs)
    ELSE create_backup(fs, t, file_path, io)

NoProgress == [op |-> "", path |-> NoPath]

\* a finished call: status is "missing" when the path did not exist at the step
\* that raised
RaceCall(op, path, r, missing) ==
    [FSCall(op, path, r) EXCEPT !.status = IF missing THEN "missing" ELSE ""]

InitRace ==
    /\ pc = "idle"
    /\ inp = NoProgress
    /\ cur = NoObj
    /\ orig = NoObj
    /\ last = FSCall("", <<>>, Return(None))
    /\ heap = <<>>
    /\ files \in InitialFiles
    /\ now = 0 /\ taken = {}

\* the call starts with file_path_obj.exists()
CheckExists ==
    \E op \in {"read_file", "delete_file", "create_backup"} :
        \E file_path \in {test_file, nested_file} :
            /\ pc = "idle"
            /\ IF ~exists(files, file_path)
               THEN /\ last' = RaceCall(op, file_path,
                                        Raise("FileNotFoundError", "File not found"),
                                        TRUE)
                    /\ UNCHANGED <<pc, inp>>
               ELSE /\ pc' = IF op = "delete_file" THEN "try" ELSE "is_file"
                    /\ inp' = [op |-> op, path |-> file_path]
                    /\ last' = FSCall(op, file_path, Return(None))
            /\ UNCHANGED <<cur, orig, heap, disk>>

\* read_file and create_backup go on with file_path_obj.is_file()
CheckIsFile ==
    /\ pc = "is_file"
    /\ IF ~is_file(files, inp.path)
       THEN /\ last' = RaceCall(inp.op, inp.path,
                                Raise("ValueError", "Path is not a file"),
                                ~exists(files, inp.path))
            /\ pc' = "idle"
            /\ inp' = NoProgress
       ELSE /\ pc' = "try"
            /\ UNCHANGED <<inp, last>>
    /\ UNCHANGED <<cur, orig, heap, disk>>

\* the read, the unlink or the copy, and what the call returns or raises
Try ==
    /\ pc = "try"
    /\ \E io \in {IOOk, IODenied} :
           LET r == CASE inp.op = "read_file" ->
                           Outcome(read_file_try(files, inp.path, io), files)
                      [] inp.op = "delete_file" ->
                           delete_file_try(files, inp.path, io)
                      [] inp.op = "create_backup" ->
                           create_backup_try(files, now, inp.path, io)
           IN  /\ files' = r.fs
               /\ last' = RaceCall(inp.op, inp.path,
                                   IF r.res.ok THEN Return(None) ELSE r.res,
                                   ~exists(files, inp.path))
    /\ pc' = "idle"
    /\ inp' = NoProgress
    /\ UNCHANGED <<cur, orig, heap, now, taken>>

\* the other process removes test.py
OtherRemoves ==
    /\ pc \in {"idle", "is_file", "try"}
    /\ test_file \in DOMAIN files
    /\ files' = [q \in DOMAIN files \ {test_file} |-> files[q]]
    /\ UNCHANGED <<pc, inp, cur, orig, last, heap, now, taken>>

\* the other process creates test.py
OtherCreates ==
    /\ pc \in {"idle", "is_file", "try"}
    /\ test_file \notin DOMAIN files
    /\ \E c \in {<<>>, <<"x">>} :
           files' = With(files, test_file, RegularFile(encode(c).val))
    /\ UNCHANGED <<pc, inp, cur, orig, last, heap, now, taken>>

NextRace == CheckExists \/ CheckIsFile \/ Try \/ OtherRemoves \/ OtherCreates

SpecRace == InitRace /\ [][NextRace]_vars

----------------------------------------------------------------------------
(* Properties *)

\* the caller holds an instance of cls
Holds(cls) == pc \in {"built", "loaded"} /\ cur.cls = cls

\* the last call was the constructor of cls, on the arguments inp.v
Constructed(cls) == last.op = cls /\ inp.cls = cls /\ inp.kind = "args"

\* the last call was from_dict on the mapping the caller drew, inp.v
Loaded(cls) ==
    last.op = "from_dict" /\ inp.cls = cls /\ inp.kind = "data"
    /\ orig.cls = "NoneType"

\* the last call was from_dict on the mapping to_dict made of the instance orig
RoundTripped(cls) == last.op = "from_dict" /\ orig.cls = cls

\* C1: constructing an Issue succeeds exactly when line >= 1, column >= 1,
\* file_path, code and message are non-empty and source is "pyright" or "ruff";
\* otherwise construction fails and no instance is returned to the caller.
C1_IssueConstructedIffValid ==
    Constructed("Issue") =>
        /\ last.ok <=> /\ inp.v.line >= 1
                       /\ inp.v.column >= 1
                       /\ inp.v.file_path # ""
                       /\ inp.v.code # ""
                       /\ inp.v.message # ""
                       /\ inp.v.source \in {"pyright", "ruff"}
        /\ last.ok => pc = "built" /\ cur.cls = "Issue"
        /\ ~last.ok => pc = "failed" /\ cur = NoObj

\* an Issue whose only fault is its source was rejected
C1_Witness ==
    /\ Constructed("Issue") /\ ~last.ok /\ cur = NoObj
    /\ inp.v.line >= 1 /\ inp.v.column >= 1 /\ inp.v.file_path # ""
    /\ inp.v.code # "" /\ inp.v.message # "" /\ inp.v.source = "flake8"

SumHolds(s) ==
    /\ s.total_issues >= 0 /\ s.errors >= 0 /\ s.warnings >= 0 /\ s.infos >= 0
    /\ s.errors + s.warnings + s.infos = s.total_issues

\* C2: every successfully constructed ReportSummary (by the constructor or by
\* from_dict, alone or as the summary of a Report) has total_issues, errors,
\* warnings and infos >= 0 and errors + warnings + infos = total_issues; every
\* argument tuple that violates the sum identity is rejected at construction.
C2_SummarySumIdentity ==
    /\ Holds("ReportSummary") => SumHolds(cur)
    /\ Holds("Report") => SumHolds(cur.summary)
    /\ (Constructed("ReportSummary")
        /\ inp.v.errors + inp.v.warnings + inp.v.infos # inp.v.total_issues)
       => ~last.ok /\ cur = NoObj

\* non-negative counts whose sum is not the total were rejected
C2_Witness ==
    /\ Constructed("ReportSummary") /\ ~last.ok
    /\ inp.v.errors >= 0 /\ inp.v.warnings >= 0 /\ inp.v.infos >= 0
    /\ inp.v.total_issues > inp.v.errors + inp.v.warnings + inp.v.infos

\* C3: constructing a Fix with original_code equal to fixed_code always fails,
\* the empty string included, whatever the other arguments are; so every
\* constructed Fix (also one built by from_dict, alone or in a Report) has
\* original_code # fixed_code.
C3_FixIdenticalCodeRejected ==
    /\ (Constructed("Fix") /\ inp.v.original_code = inp.v.fixed_code)
       => ~last.ok /\ cur = NoObj
    /\ (Loaded("Fix") /\ {"original_code", "fixed_code"} \subseteq DOMAIN inp.v
        /\ inp.v.original_code = inp.v.fixed_code)
       => ~last.ok /\ cur = NoObj
    /\ Holds("Fix") => cur.original_code # cur.fixed_code
    /\ Holds("Report") =>
           \A k \in 1 .. Len(cur.fixes) :
               cur.fixes[k].original_code # cur.fixes[k].fixed_code

\* a Fix whose two codes are both the empty string, and nothing else wrong, was
\* rejected
C3_Witness ==
    /\ Constructed("Fix") /\ ~last.ok
    /\ inp.v.original_code = "" /\ inp.v.fixed_code = ""
    /\ inp.v.file_path # "" /\ inp.v.explanation # ""
    /\ last.msg = "original_code and fixed_code cannot be identical"

\* the messages of the invariants that the constructor arguments kw violate
Violated(cls, kw) ==
    CASE cls = "Issue" ->
           (IF kw.line < 1 THEN {"Line number must be >= 1"} ELSE {})
           \cup (IF kw.column < 1 THEN {"Column number must be >= 1"} ELSE {})
           \cup (IF kw.file_path = "" THEN {"file_path cannot be empty"} ELSE {})
           \cup (IF kw.code = "" THEN {"code cannot be empty"} ELSE {})
           \cup (IF kw.message = "" THEN {"message cannot be empty"} ELSE {})
           \cup (IF kw.source \notin {"pyright", "ruff"}
                 THEN {"source must be 'pyright' or 'ruff'"} ELSE {})
      [] cls = "Fix" ->
           (IF kw.file_path = "" THEN {"file_path cannot be empty"} ELSE {})
           \cup (IF kw.explanation = "" THEN {"explanation cannot be empty"} ELSE {})
           \cup (IF kw.original_code = kw.fixed_code
                 THEN {"original_code and fixed_code cannot be identical"} ELSE {})
      [] cls = "ReportSummary" ->
           (IF kw.total_issues < 0 THEN {"total_issues cannot be negative"} ELSE {})
           \cup (IF kw.errors < 0 THEN {"errors cannot be negative"} ELSE {})
           \cup (IF kw.warnings < 0 THEN {"warnings cannot be negative"} ELSE {})
           \cup (IF kw.infos < 0 THEN {"infos cannot be negative"} ELSE {})
           \cup (IF kw.errors + kw.warnings + kw.infos # kw.total_issues
                 THEN {"Sum of errors, warnings, and infos must equal total_issues"}
                 ELSE {})
      [] cls \in {"Report", "Config"} ->
           (IF kw.project_path = "" THEN {"project_path cannot be empty"} ELSE {})

Classes == {"Issue", "Fix", "ReportSummary", "Report", "Config"}

\* C4: for Issue, Fix, ReportSummary, Report and Config, constructor arguments
\* that violate exactly one invariant make construction fail with a validation
\* error whose message is that invariant's; arguments that violate none make
\* it succeed.
C4_OneViolationNamed ==
    \A cls \in Classes :
        Constructed(cls) =>
            /\ Violated(cls, inp.v) = {} => last.ok /\ cur.cls = cls
            /\ Cardinality(Violated(cls, inp.v)) = 1 =>
                   /\ ~last.ok
                   /\ last.kind = "ValueError"
                   /\ last.msg \in Violated(cls, inp.v)

\* an Issue whose only fault is its column was rejected with the column's message
C4_Witness ==
    /\ Constructed("Issue") /\ ~last.ok
    /\ Violated("Issue", inp.v) = {"Column number must be >= 1"}
    /\ last.msg = "Column number must be >= 1"

\* C5: round trip for Issue, Fix, ReportSummary and Config: for every valid
\* instance v, from_dict(to_dict(v)) succeeds and equals v field by field.
C5_RoundTrip ==
    \A cls \in {"Issue", "Fix", "ReportSummary", "Config"} :
        RoundTripped(cls) => last.ok /\ pc = "loaded" /\ cur = orig

\* an unsafe Fix whose Issue has no suggestion came back equal
C5_Witness ==
    /\ RoundTripped("Fix") /\ last.ok /\ cur = orig
    /\ orig.safe = FALSE /\ orig.issue.suggestion = None
    /\ cur.safe = FALSE /\ cur.issue.suggestion = None

\* C6: round trip for Report: Report.from_dict(r.to_dict()) succeeds and has
\* issues and fixes of the same length, in the same order, with equal
\* elements, an equal summary, an equal timestamp and the same project_path.
C6_ReportRoundTrip ==
    RoundTripped("Report") =>
        /\ last.ok /\ pc = "loaded"
        /\ Len(cur.issues) = Len(orig.issues)
        /\ \A k \in 1 .. Len(orig.issues) : cur.issues[k] = orig.issues[k]
        /\ Len(cur.fixes) = Len(orig.fixes)
        /\ \A k \in 1 .. Len(orig.fixes) : cur.fixes[k] = orig.fixes[k]
        /\ cur.summary = orig.summary
        /\ cur.timestamp = orig.timestamp
        /\ cur.project_path = orig.project_path

\* a Report with two different issues, two different fixes and a timestamp that
\* has microseconds and an offset came back equal
C6_Witness ==
    /\ RoundTripped("Report") /\ last.ok
    /\ Len(orig.issues) = 2 /\ orig.issues[1] # orig.issues[2]
    /\ Len(orig.fixes) = 2 /\ orig.fixes[1] # orig.fixes[2]
    /\ orig.timestamp.microsecond # 0 /\ orig.timestamp.utcoffset # None
    /\ cur.issues = orig.issues /\ cur.fixes = orig.fixes
    /\ cur.timestamp = orig.timestamp

\* the mapping d of an Issue carries a severity or a category that is not one of
\* the literal values
BadEnum(d) ==
    \/ "severity" \in DOMAIN d /\ d.severity \notin {"error", "warning", "info"}
    \/ "category" \in DOMAIN d
       /\ d.category \notin {"type-error", "style-violation", "import-issue"}

SeverityLiteral(i, d) ==
    /\ i.severity = "ERROR" => d.severity = "error"
    /\ i.severity = "WARNING" => d.severity = "warning"
    /\ i.severity = "INFO" => d.severity = "info"

CategoryLiteral(i, d) ==
    /\ i.category = "TYPE_ERROR" => d.category = "type-error"
    /\ i.category = "STYLE_VIOLATION" => d.category = "style-violation"
    /\ i.category = "IMPORT_ISSUE" => d.category = "import-issue"

Literals(i, d) == SeverityLiteral(i, d) /\ CategoryLiteral(i, d)

\* C9: enumeration fields serialise to their literal string value, and
\* Issue.from_dict, directly or nested in Fix.from_dict / Report.from_dict,
\* fails for every severity or category string that is not exactly one of those
\* values: no default member is substituted.
C9_EnumLiteralsExact ==
    /\ (last.op = "to_dict" /\ orig.cls = "Issue") => Literals(orig, cur)
    /\ (last.op = "to_dict" /\ orig.cls = "Fix") => Literals(orig.issue, cur.issue)
    /\ (last.op = "to_dict" /\ orig.cls = "Report") =>
           /\ \A k \in 1 .. Len(orig.issues) : Literals(orig.issues[k], cur.issues[k])
           /\ \A k \in 1 .. Len(orig.fixes) :
                  Literals(orig.fixes[k].issue, cur.fixes[k].issue)
    /\ (Loaded("Issue") /\ BadEnum(inp.v)) => ~last.ok /\ cur = NoObj
    /\ (Loaded("Fix") /\ "issue" \in DOMAIN inp.v /\ BadEnum(inp.v.issue))
       => ~last.ok /\ cur = NoObj
    /\ (/\ Loaded("Report")
        /\ \/ /\ "issues" \in DOMAIN inp.v
              /\ \E k \in 1 .. Len(inp.v.issues) : BadEnum(inp.v.issues[k])
           \/ /\ "fixes" \in DOMAIN inp.v
              /\ \E k \in 1 .. Len(inp.v.fixes) :
                     /\ "issue" \in DOMAIN inp.v.fixes[k]
                     /\ BadEnum(inp.v.fixes[k].issue))
       => ~last.ok /\ cur = NoObj

\* Fix.from_dict on a mapping whose nested issue carries the member's name
\* "WARNING" in place of the value "warning" raised ValueError
C9_Witness ==
    /\ Loaded("Fix") /\ "issue" \in DOMAIN inp.v
    /\ "severity" \in DOMAIN inp.v.issue /\ inp.v.issue.severity = "WARNING"
    /\ ~last.ok /\ last.kind = "ValueError" /\ last.msg = "is not a valid Severity"

\* the keys for which the documentation gives a default
Optional(cls) ==
    CASE cls = "Issue" -> {"suggestion"}
      [] cls = "Fix" -> {"safe"}
      [] cls = "ReportSummary" -> {"by_category", "by_file"}
      [] cls = "Report" -> {}
      [] cls = "Config" ->
           {"pyright_config", "ruff_config", "exclusions", "google_style_guide",
            "auto_fix_enabled", "backup_enabled", "dry_run"}

Fields(cls) ==
    CASE cls = "Issue" ->
           {"file_path", "line", "column", "severity", "category", "code", "message",
            "suggestion", "source"}
      [] cls = "Fix" ->
           {"file_path", "original_code", "fixed_code", "issue", "explanation", "safe"}
      [] cls = "ReportSummary" ->
           {"total_issues", "errors", "warnings", "infos", "by_category", "by_file"}
      [] cls = "Report" -> {"issues", "fixes", "summary", "timestamp", "project_path"}
      [] cls = "Config" -> {"project_path"} \cup Optional("Config")

\* the field key of instance v is at its documented default
AtDefault(v, key) ==
    CASE key = "suggestion" -> v.suggestion = None
      [] key \in {"safe", "google_style_guide", "auto_fix_enabled", "backup_enabled"}
           -> v[key] = TRUE
      [] key = "dry_run" -> v.dry_run = FALSE
      [] key \in {"by_category", "by_file", "pyright_config", "ruff_config"}
           -> v[key] = EmptyDict
      [] key = "exclusions" -> v.exclusions = EmptyList

\* from_dict on the mapping inp.v, of which the keys in optional may be absent
FromDictContract(cls, optional) ==
    Loaded(cls) =>
        /\ ~((Fields(cls) \ optional) \subseteq DOMAIN inp.v) => ~last.ok /\ cur = NoObj
        /\ (Fields(cls) \subseteq DOMAIN inp.v /\ cls \notin {"Report", "Fix"}
            /\ Violated(cls, inp.v) # {}) => ~last.ok /\ cur = NoObj
        /\ (cls = "Fix" /\ Fields(cls) \subseteq DOMAIN inp.v
            /\ Fields("Issue") \subseteq DOMAIN inp.v.issue
            /\ Violated("Fix", inp.v) \cup Violated("Issue", inp.v.issue) # {})
           => ~last.ok /\ cur = NoObj
        /\ last.ok => \A key \in Optional(cls) \ DOMAIN inp.v : AtDefault(cur, key)

\* C10: from_dict on a mapping that has every required key and lacks an optional
\* key (Fix.safe; the Config fields other than project_path;
\* ReportSummary.by_category, by_file; Issue.suggestion) yields the instance
\* with that field at its documented default; on a mapping that lacks a
\* required key, or whose values violate an invariant of the entity or of a
\* nested entity, it fails and returns no instance.
C10_FromDictDefaultsAndFailures ==
    \A cls \in Classes : FromDictContract(cls, Optional(cls))

\* C10, with "issues" and "fixes" counted among the keys a Report mapping may lack
C10_ExceptReportLists ==
    \A cls \in Classes :
        FromDictContract(cls, Optional(cls) \cup
                              (IF cls = "Report" THEN {"issues", "fixes"} ELSE {}))

\* C11: a Config constructed from a non-empty project_path alone has
\* google_style_guide, auto_fix_enabled and backup_enabled true, dry_run false
\* and empty pyright_config, ruff_config and exclusions; each of these fields
\* can be set independently of the others: construction succeeds for every
\* choice of the fields passed, a field passed holds the value passed and a
\* field not passed holds its default.
C11_ConfigDefaults ==
    (Constructed("Config") /\ inp.v.project_path # "") =>
        /\ last.ok /\ pc = "built" /\ cur.cls = "Config"
        /\ cur.project_path = inp.v.project_path
        /\ \A key \in Optional("Config") :
               IF key \in DOMAIN inp.v THEN cur[key] = inp.v[key]
               ELSE AtDefault(cur, key)

\* Config(project_path="a.py") returned an instance, dry_run is False in it
C11_Witness ==
    /\ Constructed("Config") /\ DOMAIN inp.v = {"project_path"}
    /\ inp.v.project_path # "" /\ last.ok
    /\ cur.dry_run = FALSE /\ cur.backup_enabled = TRUE /\ cur.exclusions = EmptyList

\* the node at path is the same in the file systems fs and gs
SameAt(fs, gs, path) ==
    /\ path \in DOMAIN fs <=> path \in DOMAIN gs
    /\ path \in DOMAIN fs => fs[path] = gs[path]

\* C12: create_backup on an existing regular file whose content is C returns
\* the path of a file in the same directory whose content is exactly C, and
\* leaves the original file's content equal to C and every other file
\* unchanged.
C12_BackupCopiesContent ==
    [][(last'.op = "create_backup" /\ last'.ok) =>
           /\ is_file(files, last'.path)
           /\ parent(last'.backup) = parent(last'.path)
           /\ is_file(files', last'.backup)
           /\ files'[last'.backup].content = files[last'.path].content
           /\ SameAt(files, files', last'.path)
           /\ \A q \in (DOMAIN files \cup DOMAIN files') \ {last'.backup} :
                  SameAt(files, files', q)]_vars

\* create_backup returned the path of a backup of test.py, which holds "x\r"
C12_Witness ==
    /\ last.op = "create_backup" /\ last.ok /\ last.path = test_file
    /\ is_file(files, last.backup) /\ is_file(files, test_file)
    /\ files[last.backup].content = <<"x", "CR">>
    /\ files[test_file].content = <<"x", "CR">>

\* C13: every successful create_backup call creates a new file, so after any
\* sequence of write_file and create_backup calls on one file every backup
\* path returned so far still holds the content the file had at the moment
\* that backup was taken, also when two backups of the file are taken within
\* the same clock second.
C13_BackupsKeepSnapshot ==
    \A b \in taken : is_file(files, b.path) /\ files[b.path].content = b.content

\* C13, first sentence: the path a successful create_backup returns did not
\* exist before the call
C13_BackupIsNewFile ==
    [][(last'.op = "create_backup" /\ last'.ok) => ~exists(files, last'.backup)]_vars

\* C14: create_backup fails with FileNotFoundError when the path does not exist
\* and with a ValueError ("Path is not a file") when the path exists but is not
\* a regular file; in both cases no backup file is created and the file system
\* is unchanged.
C14_BackupPreconditions ==
    [][last'.op = "create_backup" =>
           /\ ~exists(files, last'.path) =>
                  /\ ~last'.ok /\ last'.kind = "FileNotFoundError"
                  /\ files' = files /\ taken' = taken
           /\ (exists(files, last'.path) /\ ~is_file(files, last'.path)) =>
                  /\ ~last'.ok /\ last'.kind = "ValueError"
                  /\ last'.msg = "Path is not a file"
                  /\ files' = files /\ taken' = taken]_vars

\* create_backup on the directory raised ValueError, there is no backup
C14_Witness ==
    /\ last.op = "create_backup" /\ last.path = temp_dir
    /\ ~last.ok /\ last.kind = "ValueError" /\ last.msg = "Path is not a file"
    /\ DOMAIN files \subseteq {temp_dir, test_file}

\* the text a file that holds bytes is read as
TextOf(bytes) == universal_newlines(bytes)

\* C15: fix application checks staleness before any write: whenever the file's
\* current content does not match Fix.original_code, the operation reports a
\* "stale fix" condition, writes nothing and creates no backup, so a file is
\* never overwritten with Fix.fixed_code in a state where its content differs
\* from Fix.original_code.
C15_StaleFixNotApplied ==
    [][(last'.op = "apply_fix" /\ is_file(files, last'.path)
        /\ TextOf(files[last'.path].content) # inp.fix.original_code) =>
           /\ last'.ok /\ last'.status = "stale"
           /\ files' = files /\ taken' = taken]_vars

\* the fix with original_code "x" was reported stale on test.py holding "x\r"
C15_Witness ==
    /\ last.op = "apply_fix" /\ last.ok /\ last.status = "stale"
    /\ inp.fix.original_code = <<"x">>
    /\ is_file(files, test_file) /\ files[test_file].content = <<"x", "CR">>

\* the errors create_backup raises when the copy fails
BackupFailed(call) ==
    /\ ~call.ok
    /\ call.msg \in {"Permission denied creating backup", "Failed to create backup"}

\* C16: in fix application with backup_enabled = true and dry_run = false the
\* backup always precedes the write: whenever the file at the path is written,
\* create_backup completed successfully before and the backup holds the
\* pre-write content of the file; if create_backup fails, the write does not
\* happen.
C16_BackupBeforeWrite ==
    [][(last'.op = "apply_fix" /\ inp.config.backup_enabled /\ ~inp.config.dry_run) =>
           /\ ~SameAt(files, files', last'.path) =>
                  \E b \in DOMAIN files' \ {last'.path} :
                      /\ parent(b) = parent(last'.path)
                      /\ is_file(files', b)
                      /\ files'[b].content = files[last'.path].content
                      /\ last'.ok => last'.backup = b
           /\ BackupFailed(last') => SameAt(files, files', last'.path)]_vars

\* the fix was applied to test.py: test.py holds the fixed code "" and the
\* backup returned holds "x", the original code
C16_Witness ==
    /\ last.op = "apply_fix" /\ last.ok /\ last.status = "applied"
    /\ inp.config.backup_enabled /\ ~inp.config.dry_run
    /\ inp.fix.original_code = <<"x">> /\ inp.fix.fixed_code = <<>>
    /\ files[test_file].content = <<>>
    /\ files[last.backup].content = <<"x">>

\* C17: in fix application, dry_run = true skips both the backup and the write
\* (the file system is left unchanged and the would-be change is only
\* reported), and backup_enabled = false with dry_run = false skips only the
\* backup (the fixed code is written and no backup file is created).
C17_DryRunAndNoBackup ==
    [][last'.op = "apply_fix" =>
           /\ inp.config.dry_run =>
                  /\ files' = files /\ taken' = taken
                  /\ (is_file(files, last'.path)
                      /\ TextOf(files[last'.path].content) = inp.fix.original_code)
                     => last'.ok /\ last'.status = "dry_run"
           /\ (~inp.config.dry_run /\ ~inp.config.backup_enabled) =>
                  /\ DOMAIN files' = DOMAIN files /\ taken' = taken
                  /\ \A q \in DOMAIN files \ {last'.path} : files'[q] = files[q]
                  /\ (last'.ok /\ last'.status = "applied") =>
                         /\ last'.backup = NoPath
                         /\ files'[last'.path].content = inp.fix.fixed_code
                         /\ TextOf(files[last'.path].content) = inp.fix.original_code]_vars

\* with backup_enabled = False the fix was applied to test.py, which held "x":
\* test.py holds the fixed code "x\r" and the directory holds nothing else
C17_Witness ==
    /\ last.op = "apply_fix" /\ last.ok /\ last.status = "applied"
    /\ ~inp.config.dry_run /\ ~inp.config.backup_enabled
    /\ inp.fix.original_code = <<"x">> /\ inp.fix.fixed_code = <<"x", "CR">>
    /\ files[test_file].content = <<"x", "CR">>
    /\ DOMAIN files = {temp_dir, test_file}

\* C18: write_file is complete-or-unchanged: if write_file(path, content) fails
\* at any point it raises an error and the file at path holds exactly what it
\* held before the call (it is neither truncated nor partially written); if it
\* returns normally the file holds exactly content.
C18_WriteCompleteOrUnchanged ==
    [][last'.op = "write_file" =>
           /\ ~last'.ok => last'.kind # "" /\ SameAt(files, files', last'.path)
           /\ last'.ok => /\ is_file(files', last'.path)
                          /\ files'[last'.path].content = last'.text]_vars

\* C18 for the calls that return: the file then holds exactly content
C18_WriteComplete ==
    [][(last'.op = "write_file" /\ last'.ok) =>
           /\ is_file(files', last'.path)
           /\ files'[last'.path].content = last'.text]_vars

\* C19: after a successful write_file(p, c), read_file(p) returns exactly c: for
\* a path that did not exist (missing parent directories are created), for a
\* path that already held other content (it is overwritten in full) and for
\* empty c.
C19_WriteThenRead ==
    (last.op = "write_file" /\ last.ok) =>
        /\ read_file(files, last.path, IOOk).ok
        /\ read_file(files, last.path, IOOk).val = last.text

\* C19 for the texts without a carriage return
C19_WriteThenReadNoCR ==
    (last.op = "write_file" /\ last.ok /\ \A k \in DOMAIN last.text : last.text[k] # "CR")
        => /\ read_file(files, last.path, IOOk).ok
           /\ read_file(files, last.path, IOOk).val = last.text

\* C20: read_file and delete_file succeed only on an existing regular file: on
\* a path that does not exist they fail with FileNotFoundError, on an existing
\* directory they fail with an error, and in both failure cases the file
\* system is unchanged; after a successful delete_file(p) the path p does not
\* exist, so a following read_file(p) or delete_file(p) fails with
\* FileNotFoundError.
C20_ReadDeletePreconditions ==
    [][last'.op \in {"read_file", "delete_file"} =>
           /\ last'.ok => is_file(files, last'.path)
           /\ ~exists(files, last'.path) =>
                  ~last'.ok /\ last'.kind = "FileNotFoundError" /\ files' = files
           /\ is_dir(files, last'.path) => ~last'.ok /\ files' = files
           /\ (last'.op = "delete_file" /\ last'.ok) =>
                  /\ ~exists(files', last'.path)
                  /\ \A io \in IOOutcomes :
                         /\ read_file(files', last'.path, io).kind = "FileNotFoundError"
                         /\ delete_file(files', last'.path, io).res.kind
                                = "FileNotFoundError"]_vars

\* delete_file on test.py, deleted by the call before, raised FileNotFoundError
C20_Witness ==
    /\ last.op = "delete_file" /\ last.path = test_file
    /\ ~last.ok /\ last.kind = "FileNotFoundError"
    /\ ~exists(files, test_file) /\ now >= 2

\* the messages of the checks of cls.__post_init__, in the order the claim gives
CheckOrder(cls) ==
    CASE cls = "Issue" ->
           <<"Line number must be >= 1", "Column number must be >= 1",
             "file_path cannot be empty", "code cannot be empty",
             "message cannot be empty", "source must be 'pyright' or 'ruff'">>
      [] cls = "Fix" ->
           <<"file_path cannot be empty", "explanation cannot be empty",
             "original_code and fixed_code cannot be identical">>
      [] cls = "ReportSummary" ->
           <<"total_issues cannot be negative", "errors cannot be negative",
             "warnings cannot be negative", "infos cannot be negative",
             "Sum of errors, warnings, and infos must equal total_issues">>

\* the first message of order that is in the non-empty set msgs
FirstOf(order, msgs) ==
    order[CHOOSE i \in 1 .. Len(order) :
              /\ order[i] \in msgs
              /\ \A j \in 1 .. i - 1 : order[j] \notin msgs]

\* C27: when the constructor arguments of an Issue, a Fix or a ReportSummary
\* violate one or several invariants, construction fails with the ValueError of
\* the first violated check in the order line, column, file_path, code, message,
\* source (Issue); file_path, explanation, identical codes (Fix); total_issues,
\* errors, warnings, infos negative, then the sum identity (ReportSummary).
C27_FirstFailingCheck ==
    \A cls \in {"Issue", "Fix", "ReportSummary"} :
        Constructed(cls) /\ Violated(cls, inp.v) # {} =>
            /\ ~last.ok
            /\ last.kind = "ValueError"
            /\ last.msg = FirstOf(CheckOrder(cls), Violated(cls, inp.v))

\* a ReportSummary with a negative count and a wrong sum was rejected for the
\* negative count, a Fix with an empty explanation and identical codes for the
\* explanation
C27_Witness ==
    \/ /\ Constructed("ReportSummary")
       /\ inp.v.total_issues >= 0 /\ inp.v.errors < 0
       /\ inp.v.errors + inp.v.warnings + inp.v.infos # inp.v.total_issues
       /\ last.msg = "errors cannot be negative"
    \/ /\ Constructed("Fix")
       /\ inp.v.file_path # "" /\ inp.v.explanation = ""
       /\ inp.v.original_code = inp.v.fixed_code
       /\ last.msg = "explanation cannot be empty"

ValidSources == {"pyright", "ruff"}

\* every Issue that the instance obj holds, obj included
IssuesOf(obj) ==
    CASE obj.cls = "Issue" -> {obj}
      [] obj.cls = "Fix" -> {obj.issue}
      [] obj.cls = "Report" ->
           {obj.issues[i] : i \in 1 .. Len(obj.issues)}
           \cup {obj.fixes[i].issue : i \in 1 .. Len(obj.fixes)}
      [] OTHER -> {}

\* C28: constructing an Issue without a source, and Issue.from_dict on a mapping
\* without a "source" key, fail; when nothing else is wrong with the arguments
\* the failure is the ValueError "source must be 'pyright' or 'ruff'". No
\* instance that a constructor or from_dict returns holds an Issue (itself, in a
\* Fix, in a Report) whose source is outside {pyright, ruff}.
C28_SourceRequired ==
    /\ last.op = "Issue without source" =>
           /\ ~last.ok
           /\ Violated("Issue", [inp.v EXCEPT !.source = "ruff"]) = {} =>
                  /\ last.kind = "ValueError"
                  /\ last.msg = "source must be 'pyright' or 'ruff'"
    /\ Loaded("Issue") /\ "source" \notin DOMAIN inp.v =>
           /\ ~last.ok
           /\ Issue_from_dict(inp.v @@ [source |-> "ruff"]).ok =>
                  /\ last.kind = "ValueError"
                  /\ last.msg = "source must be 'pyright' or 'ruff'"
    /\ pc \in {"built", "loaded"} =>
           \A i \in IssuesOf(cur) : i.source \in ValidSources

\* an Issue constructed without a source, or loaded from a mapping without the
\* key, was rejected for its source
C28_Witness ==
    /\ \/ last.op = "Issue without source"
       \/ Loaded("Issue") /\ "source" \notin DOMAIN inp.v
    /\ last.msg = "source must be 'pyright' or 'ruff'"

\* the functions of git_utils that need a repository
RepositoryOps ==
    {"get_changed_files", "get_staged_files", "get_unstaged_files",
     "get_untracked_files", "get_file_status"}

\* the functions of git_utils that describe the repository
DescribingOps == {"get_repository_root", "get_current_branch", "get_commit_hash"}

\* the last call raised the ValueError of a directory that is no repository
NotARepositoryError ==
    ~last.ok /\ last.kind = "ValueError"
    /\ last.msg = "Directory is not a Git repository"

\* C21: when the directory is not inside a repository, get_changed_files,
\* get_staged_files, get_unstaged_files, get_untracked_files and
\* get_file_status raise the "not a Git repository" ValueError, while
\* get_repository_root, get_current_branch and get_commit_hash return None.
C21_OutsideRepository ==
    ~inp.inside =>
        /\ last.op \in RepositoryOps => NotARepositoryError
        /\ last.op \in DescribingOps => last.ok /\ last.none

\* outside a repository, with git installed, get_commit_hash returned None
\* after git exited with a status other than 0
C21_Witness ==
    /\ ~inp.inside /\ inp.installed
    /\ last.op = "get_commit_hash" /\ last.run.how = "exit"
    /\ last.ok /\ last.none

\* the probe of the last call found a repository
ProbeSucceeded == last.probe.how = "exit" /\ last.probe.returncode = 0

\* C22: when the directory is inside a repository and the command of
\* get_changed_files, get_staged_files, get_unstaged_files, get_untracked_files
\* or get_file_status exits non-zero or times out, the call raises
\* CalledProcessError with the command and the exit status of the process,
\* respectively TimeoutExpired with the command (a process that timed out has
\* no exit status); it returns nothing.
C22_ProcessFailureRaised ==
    inp.inside /\ last.op \in RepositoryOps /\ ProbeSucceeded =>
        /\ last.run.how = "exit" /\ last.run.returncode # 0 =>
               /\ ~last.ok
               /\ last.kind = "CalledProcessError"
               /\ last.cmd = last.ran[Len(last.ran)]
               /\ last.returncode = last.run.returncode
        /\ last.run.how = "timeout" =>
               /\ ~last.ok
               /\ last.kind = "TimeoutExpired"
               /\ last.cmd = last.ran[Len(last.ran)]

\* inside a repository, git diff exited with status 128 and get_changed_files
\* raised CalledProcessError for two commands run
C22_Witness ==
    /\ inp.inside /\ last.op = "get_changed_files" /\ ProbeSucceeded
    /\ last.run.how = "exit" /\ last.run.returncode = 128
    /\ last.kind = "CalledProcessError" /\ Len(last.ran) = 2

\* C25: get_file_status returns the two-character code of the line that git
\* status --porcelain printed for the path, and None when git printed nothing.
C25_StatusIsPorcelainCode ==
    last.op = "get_file_status" /\ last.ok =>
        IF last.run.stdout = <<>> THEN last.none
        ELSE ~last.none /\ last.text = Prefix(last.run.stdout, 2)

\* C29: get_changed_files, get_staged_files, get_unstaged_files,
\* get_untracked_files and get_file_status run the probe first; they raise the
\* "not a Git repository" ValueError exactly when the probe did not exit with
\* status 0 (outside a repository, git missing, probe timed out), and then run
\* no other command and raise no CalledProcessError, FileNotFoundError or
\* TimeoutExpired.
C29_ProbeFirst ==
    last.op \in RepositoryOps =>
        /\ last.ran # <<>>
        /\ last.ran[1] = <<"git", "-C", repo_dir, "rev-parse", "--git-dir">>
        /\ NotARepositoryError <=> ~ProbeSucceeded
        /\ ~ProbeSucceeded => Len(last.ran) = 1

\* git is not installed, or the probe timed out inside a repository, and the
\* caller got the ValueError
C29_Witness ==
    /\ last.op \in RepositoryOps
    /\ \/ last.probe.how = "missing"
       \/ last.probe.how = "timeout" /\ inp.inside
    /\ NotARepositoryError

\* the version invocation of the last call succeeded
ToolSucceeded == last.run.how = "exit" /\ last.run.returncode = 0

\* C23: check_tool_installed and get_tool_version raise for no outcome of the
\* version invocation (tool missing, timeout, non-zero exit, success); they
\* return False respectively None unless the invocation succeeded, and for one
\* outcome check_tool_installed returns True exactly when get_tool_version
\* returns a string.
C23_ToolProbesNeverRaise ==
    /\ last.op = "check_tool_installed" =>
           /\ last.ok
           /\ last.flag <=> ToolSucceeded
           /\ \A tool_name \in Tools :
                  LET v == get_tool_version(tool_name, last.run)
                  IN  v.ok /\ (last.flag <=> ~v.none)
    /\ last.op = "get_tool_version" =>
           /\ last.ok
           /\ ~last.none <=> ToolSucceeded
           /\ ToolSucceeded => last.text = strip(last.run.stdout)

\* an installed tool exited with a status other than 0 after printing, and
\* get_tool_version returned None
C23_Witness ==
    /\ last.op = "get_tool_version"
    /\ last.run.how = "exit" /\ last.run.returncode # 0 /\ last.run.stdout # <<>>
    /\ last.ok /\ last.none

\* the directories strictly below root that hold a pyproject.toml
PackagesBelow(root) ==
    {d \in DOMAIN files :
        /\ Len(d) > Len(root) /\ SubSeq(d, 1, Len(root)) = root
        /\ d \o <<pyproject_toml>> \in DOMAIN files}

C26_NoSharedState ==
    pc = "share" =>
        \A r \in Instances(heap) : Deep(heap, heap[r]) = orig[r]

\* C30: whenever read_file, delete_file or create_backup fails because the file
\* does not exist, also when another process removed it after the call's
\* existence check, the error raised is a FileNotFoundError.
C30_NotFoundKind ==
    pc \in {"idle", "is_file", "try"} /\ ~last.ok /\ last.status = "missing" =>
        last.kind = "FileNotFoundError"

\* C7: the instances are immutable after construction, so in every reachable
\* state every instance still satisfies its construction-time invariants.
C7_InvariantsKept ==
    \A r \in 1 .. Len(heap) :
        LET o == heap[r]
        IN  /\ o.cls = "Issue" =>
                   /\ o.line >= 1 /\ o.column >= 1 /\ o.file_path # ""
                   /\ o.code # "" /\ o.message # "" /\ o.source \in {"pyright", "ruff"}
            /\ o.cls = "Fix" =>
                   /\ o.file_path # "" /\ o.explanation # ""
                   /\ o.original_code # o.fixed_code
            /\ o.cls = "ReportSummary" => SumHolds(o)
            /\ o.cls \in {"Report", "Config"} => o.project_path # ""

\* C7, as a step property: no operation changes a field of an instance that
\* has been constructed.
C7_NoFieldChanges ==
    [][\A r \in 1 .. Len(heap) : heap'[r] = heap[r]]_vars

\* C8: a Fix embeds its Issue by value: an assignment made through the caller's
\* reference i, or through another Fix or Report built from i, does not change
\* what fix.issue reads, and an assignment made through fix.issue does not
\* change what the caller reads through i.
C8_FixIssueByValue ==
    [][last'.op = "setattr" =>
         \A f \in Refs("Fix") :
             /\ last'.via # f => heap'[heap'[f].issue] = heap[heap[f].issue]
             /\ last'.via = f => heap'[last'.ref] = heap[last'.ref]]_vars

====
